---- MODULE Spec2Model ----
(***************************************************************************)
(* Conversation engine of the vkinder bot: the per-user state machine      *)
(* (vkinder/model/states), its Store effects and the search cache.         *)
(*                                                                         *)
(* A handler is a Python generator.  It is modelled as an operator from a  *)
(* computation record                                                      *)
(*     [st, log, exc, errs, nsearch, found, fetched, fetch_failed,         *)
(*      entered, nstart, token]                                            *)
(* to the SET of computation records the handler can end in: st is the     *)
(* Store content of the user, log the responses yielded so far (each with  *)
(* the stored user state and last_state at the moment of the yield), exc   *)
(* the exception in flight ("none" when there is none), errs the kinds of  *)
(* provider errors raised so far, nsearch the number of provider search    *)
(* calls, found the candidate the search loop stopped at, fetched whether   *)
(* get_user_profile was called for a candidate, fetch_failed whether a     *)
(* get_user_profile call raised a provider error, entered the              *)
(* state whose start handler StateManager.start last called in this turn   *)
(* nstart the number of such calls in the turn and token what              *)
(* get_user_token returned ("unset" before it is called).  The set has one *)
(* element per outcome of the provider calls, the Store transactions and   *)
(* random.shuffle.                                                         *)
(***************************************************************************)
EXTENDS Integers, Sequences, FiniteSets, TLC

VARIABLES
    user_state,     \* User.state of the user's row
    progress,       \* the user's UserProgress row
    favorites,      \* the user's Favorite rows, profile ids by created_at
    blacklist,      \* the user's Blacklist rows, profile ids by created_at
    auth_data,      \* whether the user has a UserAuthData row
    responses,      \* the Response stream of the last turn
    turn,           \* facts about the last turn (input text, Store before, ...)
    search_cache,   \* SearchingState._search_cache: user id -> record
    now,            \* the clock read by SearchingState._now (minutes)
    cache_result,   \* what the last _get_search_results call returned
    render,         \* render_messages: its input, position and locals
    candidate,      \* a requester, a fetched profile and the loop's verdict
    loop,           \* start_message_loop: its position, the pending events,
                    \* the events of the current batch and the auth queue
    sessions        \* AuthService: its three session dicts and the position
                    \* of the bot thread and of the auth server thread in it

vars == <<user_state, progress, favorites, blacklist, auth_data, responses,
          turn, search_cache, now, cache_result, render, candidate, loop,
          sessions>>

(***************************************************************************)
(* Bounds of the model.                                                    *)
(***************************************************************************)
MaxProfile == 2     \* profile ids 1..MaxProfile stand for _TEST_LIST
MaxTime == 7        \* the clock runs from 0 to MaxTime

(***************************************************************************)
(* Values.                                                                 *)
(***************************************************************************)
None == -1          \* Python None in an Optional[int] position

NEW_USER == "new_user"
MAIN_MENU == "main_menu"
SEARCHING == "searching"
AUTH == "auth"
FAVORITE_LIST == "favorite_list"
BLACKLIST == "blacklist"

MenuToken ==
    {"search", "profile", "favorite", "help", "prev", "next",
     "delete_favorite", "add_favorite", "go_back", "auth_begin",
     "auth_finished", "add_blacklist", "delete_blacklist"}

\* InputMessage.text after normalize_menu_command: a MenuToken, or the raw
\* string when the text is no menu item (a raw string may spell a token value).
Texts ==
    {[token |-> TRUE, val |-> t] : t \in MenuToken}
        \cup {[token |-> FALSE, val |-> "search"]}

Tok(t) == [token |-> TRUE, val |-> t]

\* Sex (ISO/IEC 5218)
NOT_KNOWN == "not_known"
MALE == "male"
FEMALE == "female"

\* _TEST_LIST, its profile ids renamed 1..MaxProfile
TEST_LIST == [i \in 1..MaxProfile |-> i]

\* UserProgress() column defaults
DefaultProgress ==
    [last_state |-> MAIN_MENU,
     last_found_id |-> 0,
     last_favorite_index |-> 0,
     last_favorite_id |-> 0,
     last_blacklist_index |-> 0,
     last_blacklist_id |-> 0]

(***************************************************************************)
(* Sequence helpers.                                                       *)
(***************************************************************************)
Range(s) == {s[i] : i \in 1..Len(s)}

RECURSIVE Without(_, _)
Without(s, x) ==
    IF s = <<>> THEN <<>>
    ELSE IF Head(s) = x THEN Without(Tail(s), x)
    ELSE <<Head(s)>> \o Without(Tail(s), x)

(***************************************************************************)
(* Computation records and the generator plumbing.                         *)
(***************************************************************************)
Store ==
    [state |-> user_state,
     progress |-> progress,
     favorites |-> favorites,
     blacklist |-> blacklist,
     auth_data |-> auth_data]

NotFound == [id |-> None]

Begin(st) ==
    [st |-> st, log |-> <<>>, exc |-> "none", errs |-> {}, nsearch |-> 0,
     found |-> NotFound, fetched |-> FALSE, fetch_failed |-> FALSE,
     entered |-> "none", nstart |-> 0, token |-> "unset"]

\* yield <response>: the response is appended with the user state stored at
\* that moment; `by` and `meth` name the handler whose code yields.
YieldIndexed(c, type, squash, by, meth, pid, index, total) ==
    [c EXCEPT !.log = Append(@,
        [type |-> type, squash |-> squash, by |-> by, meth |-> meth,
         pid |-> pid, index |-> index, total |-> total,
         state |-> c.st.state, last_state |-> c.st.progress.last_state,
         entered |-> c.entered, nstart |-> c.nstart])]

Yield(c, type, squash, by, meth, pid) ==
    YieldIndexed(c, type, squash, by, meth, pid, 0, 0)

Raise(c, e) == [c EXCEPT !.exc = e]

\* Sequential composition: the rest of a handler runs only on the outcomes in
\* which no exception is in flight.
Then(S, F(_)) == UNION {IF c.exc = "none" THEN F(c) ELSE {c} : c \in S}

\* `with session.begin():` either opens a transaction or raises DatabaseError
\* (a ModelError) before anything in the block has run.
SessionBegin(c) == {c, Raise(c, "model")}

\* Leaving a `with session.begin()` block commits.  Rows given to
\* session.add() are written by that commit (the session does not autoflush),
\* outside the try blocks that turn a SQLAlchemyError into a DatabaseError:
\* a commit that fails rolls the transaction back and raises an error which
\* is no ModelError.
CommitFailed(c) == Raise(c, "sqlalchemy")

\* ModelError is caught by `except ModelError`; the provider's errors
\* (VkApiError, and VkTokenError which also derives from it) by
\* `except ProfileProviderError`.
IsModelError(c) == c.exc = "model"
IsProfileProviderError(c) == c.exc \in {"api", "token"}
Caught(c) == [c EXCEPT !.exc = "none"]

(***************************************************************************)
(* StateManager._update_user_state                                         *)
(***************************************************************************)
\* Variant: user.state is assigned before it is copied to last_state.
UpdateUserState_StateFirst(c, state) ==
    Then(SessionBegin(c), LAMBDA d :
        {[d EXCEPT !.st.state = state,
                   !.st.progress.last_state = state]})

UpdateUserState(c, state) ==
    Then(SessionBegin(c), LAMBDA d :
        {[d EXCEPT !.st.progress.last_state = d.st.state,
                   !.st.state = state]})

\* StateManager.start(state) has stored the update and calls
\* get_state(state).start
Entering(c, state) == [c EXCEPT !.entered = state, !.nstart = @ + 1]

(***************************************************************************)
(* State.show_keyboard, State.attach_profile_photos                        *)
(***************************************************************************)
ShowKeyboard(c, by, meth) == Yield(c, "keyboard", TRUE, by, meth, 0)

\* get_user_photos returns photos or raises a provider error; either error
\* is caught here and reported as photo_failed.
AttachProfilePhotos(c, by, meth, pid) ==
    {Yield(c, "attach_media", TRUE, by, meth, pid)}
        \cup {Yield([c EXCEPT !.errs = @ \cup {e}], "photo_failed", TRUE, by, meth, pid)
                : e \in {"api", "token"}}

(***************************************************************************)
(* MainMenuState                                                           *)
(***************************************************************************)
MainMenuOptions == {"search", "profile", "favorite", "help"}

MainMenuStart(c) ==
    Then(SessionBegin(c), LAMBDA d :
        {Yield(ShowKeyboard(d, MAIN_MENU, "start"),
               "select_menu", TRUE, MAIN_MENU, "start", 0)})

\* Variant: the responses of MainMenuState.start are yielded before the new
\* state is stored.
StartMainMenu_StartFirst(c) ==
    Then(MainMenuStart(Entering(c, MAIN_MENU)),
         LAMBDA d : UpdateUserState(d, MAIN_MENU))

\* Variant: the state is stored without the state the user leaves.
StartMainMenu_KeepLastState(c) ==
    Then(SessionBegin(c), LAMBDA d :
        MainMenuStart(Entering([d EXCEPT !.st.state = MAIN_MENU], MAIN_MENU)))

\* StateManager.start_main_menu: start(session, message, UserState.MAIN_MENU),
\* that is _update_user_state and then the responses of MainMenuState.start
StartMainMenu(c) ==
    Then(UpdateUserState(c, MAIN_MENU),
         LAMBDA d : MainMenuStart(Entering(d, MAIN_MENU)))

(***************************************************************************)
(* SearchingState                                                          *)
(***************************************************************************)
SEARCH_AGE_MAX_GAP == 1

SearchingOptions == {"next", "add_favorite", "add_blacklist", "go_back", "help"}

\* The fields of message.user that Searching reads.  _event_to_message
\* fetched them from the provider at the start of the turn.
UserViews == [sex : {NOT_KNOWN, MALE, FEMALE}, city_id : {None, 1}, age : {None, 30}]

\* The fields of a candidate profile that _is_profile_relevant reads, as
\* get_user_profile returns them at the moment of the call.
ProfileViews ==
    [online : BOOLEAN, city_id : {1, 2}, sex : {MALE, FEMALE}, age : {None, 29, 32}]

Max(a, b) == IF a >= b THEN a ELSE b

\* SEARCH_SEX_MAP[user.sex]; a KeyError for NOT_KNOWN
HasSearchSex(sex) == sex \in {FEMALE, MALE}
SearchSexMap(sex) == IF sex = FEMALE THEN MALE ELSE FEMALE

\* _get_search_query: the name of the "missing attribute" response, or "ok"
SearchQueryError(user) ==
    IF ~HasSearchSex(user.sex) THEN "user_sex_missing"
    ELSE IF user.city_id = None THEN "user_city_missing"
    ELSE IF user.age = None THEN "user_birthday_missing"
    ELSE "ok"

\* A UserSearchQuery.  Each field is Optional in the source: it is modelled
\* as a set that is empty for None and holds the value otherwise.
GetSearchQuery(user) ==
    [sex |-> {SearchSexMap(user.sex)},
     city_id |-> {user.city_id},
     online |-> {TRUE},        \* FILTER_ONLINE
     has_photo |-> {TRUE},     \* FILTER_HAS_PHOTO
     age_min |-> {Max(user.age - SEARCH_AGE_MAX_GAP, 0)},
     age_max |-> {user.age + SEARCH_AGE_MAX_GAP}]

\* Variant: no upper age limit.
IsProfileRelevant_NoAgeMax(profile, query) ==
    IF query.online # {} /\ profile.online \notin query.online THEN FALSE
    ELSE IF query.city_id # {} /\ profile.city_id \notin query.city_id THEN FALSE
    ELSE IF query.sex # {} /\ profile.sex \notin query.sex THEN FALSE
    ELSE IF profile.age # None
            /\ query.age_min # {} /\ \E m \in query.age_min : profile.age < m
        THEN FALSE
    ELSE TRUE

IsProfileRelevant(profile, query) ==
    IF query.online # {} /\ profile.online \notin query.online THEN FALSE
    ELSE IF query.city_id # {} /\ profile.city_id \notin query.city_id THEN FALSE
    ELSE IF query.sex # {} /\ profile.sex \notin query.sex THEN FALSE
    ELSE IF profile.age # None
            /\ (\/ (query.age_min # {} /\ \E m \in query.age_min : profile.age < m)
                \/ (query.age_max # {} /\ \E m \in query.age_max : profile.age > m))
        THEN FALSE
    ELSE TRUE

\* The loop body of _search for a profile that get_user_profile returned:
\* `break` with it when it is relevant, go on otherwise.
FetchOutcome(c, pid, query, profile) ==
    IF IsProfileRelevant(profile, query)
    THEN [c EXCEPT !.found = [id |-> pid], !.fetched = TRUE]
    ELSE [c EXCEPT !.fetched = TRUE]

\* Requesters and fetched profiles over a wider range of ages and cities,
\* and the candidate before the loop body has run on it.
RequesterViews ==
    [sex : {NOT_KNOWN, MALE, FEMALE}, city_id : {None, 1, 2}, age : {None, 0, 1, 30}]
CandidateViews ==
    [online : BOOLEAN, city_id : {1, 2}, sex : {NOT_KNOWN, MALE, FEMALE},
     age : {None, 0, 1, 2, 28, 29, 30, 31, 32}]
NoCandidate ==
    [user |-> [sex |-> NOT_KNOWN, city_id |-> None, age |-> None],
     profile |-> [online |-> FALSE, city_id |-> 1, sex |-> NOT_KNOWN, age |-> None],
     tested |-> FALSE, found |-> FALSE]

\* The outcomes of one get_user_profile call inside the loop of _search:
\* a relevant profile (the loop breaks with it), an irrelevant one (the loop
\* goes on), or a provider error.
FetchCandidate(c, pid, query) ==
    {FetchOutcome(c, pid, query, profile) : profile \in ProfileViews}
    \cup {Raise([c EXCEPT !.errs = @ \cup {e}, !.fetched = TRUE,
                         !.fetch_failed = TRUE], e)
            : e \in {"api", "token"}}

\* random.shuffle(profiles) followed by the for loop: the next profile is any
\* of those not yet visited; the loop ends at the first relevant profile, at
\* an exception, or when all are visited (for ... else: profile = None).
RECURSIVE ScanProfiles(_, _, _)
ScanProfiles(c, remaining, query) ==
    IF remaining = {} \/ c.exc # "none" \/ c.found.id # None THEN {c}
    ELSE UNION {
        UNION {ScanProfiles(d, remaining \ {pid}, query)
                 : d \in FetchCandidate(c, pid, query)}
        : pid \in remaining}

\* session.filter_non_blacklisted(user_id, profiles)
FilterNonBlacklisted(st, profiles) == profiles \ Range(st.blacklist)

\* `progress.last_found_id = profile_id` inside try/except ModelError
SaveLastFound(c, pid) ==
    {[c EXCEPT !.st.progress.last_found_id = pid], c}

(***************************************************************************)
(* Store operations on the favorite list and the blacklist.  A failed      *)
(* transaction applies nothing.                                            *)
(***************************************************************************)
FavoriteExists(st, pid) == pid \in Range(st.favorites)
AddFavorite(st, pid) == [st EXCEPT !.favorites = Append(@, pid)]
DeleteFavorite(st, pid) == [st EXCEPT !.favorites = Without(@, pid)]
GetFavoriteCount(st) == Len(st.favorites)
GetFavoriteIndex(st, index) ==
    IF index + 1 \in DOMAIN st.favorites THEN st.favorites[index + 1] ELSE None

BlacklistExists(st, pid) == pid \in Range(st.blacklist)
AddBlacklist(st, pid) == [st EXCEPT !.blacklist = Append(@, pid)]
DeleteBlacklist(st, pid) == [st EXCEPT !.blacklist = Without(@, pid)]
GetBlacklistCount(st) == Len(st.blacklist)
GetBlacklistIndex(st, index) ==
    IF index + 1 \in DOMAIN st.blacklist THEN st.blacklist[index + 1] ELSE None

(***************************************************************************)
(* SearchingState._search                                                  *)
(***************************************************************************)
SearchFound(c) ==
    UNION {AttachProfilePhotos(
               Yield(d, "search_result", TRUE, SEARCHING, "start", c.found.id),
               SEARCHING, "start", c.found.id)
             : d \in SaveLastFound(c, c.found.id)}

\* Variant: "search failed" without the return to the main menu.
SearchNotFound_StayInSearching(c) ==
    {Yield(c, "search_failed", TRUE, SEARCHING, "start", 0)}

SearchNotFound(c) ==
    StartMainMenu(Yield(c, "search_failed", TRUE, SEARCHING, "start", 0))

\* Variant: the blacklist is not applied.
Search_NoBlacklistFilter(c, query) ==
    LET profiles == Range(TEST_LIST)
    IN  Then(SessionBegin(c), LAMBDA d :
          Then(ScanProfiles(d, profiles, query),
               LAMBDA e : IF e.found.id # None THEN SearchFound(e)
                          ELSE SearchNotFound(e)))

Search(c, query) ==
    LET profiles == Range(TEST_LIST)  \* list(set(self._TEST_LIST))
    IN  Then(SessionBegin(c), LAMBDA d :
          Then(ScanProfiles(d, FilterNonBlacklisted(d.st, profiles), query),
               LAMBDA e : IF e.found.id # None THEN SearchFound(e)
                          ELSE SearchNotFound(e)))

(***************************************************************************)
(* SearchingState.start                                                    *)
(***************************************************************************)
\* What _get_search_query can return for the users of UserViews: the
\* "missing attribute" responses and the queries.
SearchQueryErrors == {SearchQueryError(user) : user \in UserViews} \ {"ok"}
SearchQueries ==
    {GetSearchQuery(user) : user \in {u \in UserViews : SearchQueryError(u) = "ok"}}

\* Variant: the search goes on after the "missing attribute" response.
SearchingStartMissing_ThenSearch(c, response) ==
    UNION {Search(Yield(c, response, TRUE, SEARCHING, "start", 0), q)
             : q \in SearchQueries}

SearchingStartMissing(c, response) ==
    StartMainMenu(Yield(c, response, TRUE, SEARCHING, "start", 0))

\* Variant: after a provider error the search is tried again.
SearchingStartSearch_Retry(c, query) ==
    UNION {IF IsProfileProviderError(d)
           THEN Search(Yield(Caught(d), "search_error", TRUE, SEARCHING, "start", 0),
                       query)
           ELSE {d}
         : d \in Search(c, query)}

\* Variant: the provider error is reported without the return to the main
\* menu.
SearchingStartSearch_StayInSearching(c, query) ==
    UNION {IF IsProfileProviderError(d)
           THEN {Yield(Caught(d), "search_error", TRUE, SEARCHING, "start", 0)}
           ELSE {d}
         : d \in Search(c, query)}

SearchingStartSearch(c, query) ==
    UNION {IF IsProfileProviderError(d)
           THEN StartMainMenu(
                    Yield(Caught(d), "search_error", TRUE, SEARCHING, "start", 0))
           ELSE {d}
         : d \in Search(c, query)}

SearchingStart(c) ==
    Then(SessionBegin(c), LAMBDA d :
        LET k == ShowKeyboard(d, SEARCHING, "start")
        IN  UNION {SearchingStartMissing(k, r) : r \in SearchQueryErrors}
              \cup UNION {SearchingStartSearch(k, q) : q \in SearchQueries})

(***************************************************************************)
(* SearchingState._add_favorite, _add_blacklist                            *)
(***************************************************************************)
SearchingAddFavorite(c) ==
    LET pid == c.st.progress.last_found_id
        st1 == DeleteBlacklist(c.st, pid)
        st2 == IF FavoriteExists(st1, pid) THEN st1 ELSE AddFavorite(st1, pid)
        failed == Yield(c, "add_to_favorite_failed", TRUE, SEARCHING, "respond", pid)
    IN  IF pid # None
        THEN {Yield([c EXCEPT !.st = st2], "added_to_favorite", TRUE,
                    SEARCHING, "respond", pid),
              CommitFailed(c),
              failed}
        ELSE {failed}

\* Variant: the profile is blacklisted without leaving the favorite list.
SearchingAddBlacklist_KeepFavorite(c) ==
    LET pid == c.st.progress.last_found_id
        st2 == IF BlacklistExists(c.st, pid) THEN c.st ELSE AddBlacklist(c.st, pid)
        failed == Yield(c, "add_to_blacklist_failed", TRUE, SEARCHING, "respond", pid)
    IN  {Yield([c EXCEPT !.st = st2], "added_to_blacklist", TRUE,
               SEARCHING, "respond", pid),
         failed}

SearchingAddBlacklist(c) ==
    LET pid == c.st.progress.last_found_id
        st1 == DeleteFavorite(c.st, pid)
        st2 == IF BlacklistExists(st1, pid) THEN st1 ELSE AddBlacklist(st1, pid)
        failed == Yield(c, "add_to_blacklist_failed", TRUE, SEARCHING, "respond", pid)
    IN  IF pid # None
        THEN {Yield([c EXCEPT !.st = st2], "added_to_blacklist", TRUE,
                    SEARCHING, "respond", pid),
              CommitFailed(c),
              failed}
        ELSE {failed}

(***************************************************************************)
(* State.is_command_accepted                                               *)
(***************************************************************************)
\* Variant: the text is compared with the tokens without the isinstance test.
IsCommandAccepted_AnyText(text, options) == text.val \in options

IsCommandAccepted(text, options) == text.token /\ text.val \in options

(***************************************************************************)
(* SearchingState.respond                                                  *)
(***************************************************************************)
SearchingCommand(c, text) ==
    CASE text.val = "next" -> SearchingStart(c)
      [] text.val = "add_favorite" ->
            Then(SearchingAddFavorite(c), LAMBDA d :
                {Yield(d, "select_menu", TRUE, SEARCHING, "respond", 0)})
      [] text.val = "add_blacklist" ->
            Then(SearchingAddBlacklist(c), LAMBDA d :
                {Yield(d, "select_menu", TRUE, SEARCHING, "respond", 0)})
      [] text.val = "go_back" -> StartMainMenu(c)
      [] text.val = "help" -> {Yield(c, "menu_help", TRUE, SEARCHING, "respond", 0)}
      [] OTHER -> {c}

SearchingRespond(c, text) ==
    Then(SessionBegin(c), LAMBDA d :
        LET k == ShowKeyboard(d, SEARCHING, "respond")
        IN  IF ~IsCommandAccepted(text, SearchingOptions)
            THEN SearchingStart(
                     Yield(k, "unknown_command", FALSE, SEARCHING, "unknown_command", 0))
            ELSE SearchingCommand(k, text))

(***************************************************************************)
(* FavoriteListState                                                       *)
(***************************************************************************)
FavoriteListOptions ==
    {"prev", "next", "delete_favorite", "add_blacklist", "go_back", "help"}

\* get_user_profile(profile_id) for a stored record: the profile, or a
\* provider error.
GetUserProfile(c) ==
    {c} \cup {Raise([c EXCEPT !.errs = @ \cup {e}, !.fetch_failed = TRUE], e)
                : e \in {"api", "token"}}

\* Variant: an empty favorite list leads to a search.
FavoriteListEmpty_ToSearching(c) ==
    Then(UpdateUserState(
             Yield(c, "favorite_list_empty", TRUE, FAVORITE_LIST, "show", 0),
             SEARCHING),
         LAMBDA d : SearchingStart(Entering(d, SEARCHING)))

FavoriteListEmpty(c) ==
    StartMainMenu(Yield(c, "favorite_list_empty", TRUE, FAVORITE_LIST, "show", 0))

FavoriteListShowRecord(c, index, count) ==
    LET pid == GetFavoriteIndex(c.st, index)
    IN  IF pid = None THEN FavoriteListEmpty(c)
        ELSE Then(GetUserProfile(c), LAMBDA d :
               Then(SessionBegin(d), LAMBDA e :
                 AttachProfilePhotos(
                   YieldIndexed(
                     [e EXCEPT !.st.progress.last_favorite_index = index,
                               !.st.progress.last_favorite_id = pid],
                     "favorite_result", TRUE, FAVORITE_LIST, "show",
                     pid, index + 1, count),
                   FAVORITE_LIST, "show", pid)))

\* Variant: the index is used as it comes.
FavoriteListShowInternal_AsGiven(c, index) ==
    Then(SessionBegin(c), LAMBDA d :
        LET count == GetFavoriteCount(d.st)
        IN  IF count = 0 THEN FavoriteListEmpty(d)
            ELSE Then(SessionBegin(d), LAMBDA e :
                   FavoriteListShowRecord(e, index, count)))

FavoriteListShowInternal(c, index) ==
    Then(SessionBegin(c), LAMBDA d :
        LET count == GetFavoriteCount(d.st)
        IN  IF count = 0 THEN FavoriteListEmpty(d)
            ELSE Then(SessionBegin(d), LAMBDA e :
                   FavoriteListShowRecord(e, index % count, count)))

FavoriteListShow(c, index) ==
    UNION {IF IsModelError(d) \/ IsProfileProviderError(d)
           THEN StartMainMenu(
                    Yield(Caught(d), "favorite_list_failed", TRUE,
                          FAVORITE_LIST, "show", 0))
           ELSE {d}
         : d \in FavoriteListShowInternal(c, index)}

FavoriteListStart(c) ==
    FavoriteListShow(ShowKeyboard(c, FAVORITE_LIST, "start"), 0)

\* session.add() of a row whose key is already stored fails at commit with
\* an IntegrityError, which is no ModelError; the transaction is rolled back.
FavoriteListDeleteFavorite(c) ==
    LET pid == c.st.progress.last_favorite_id
        index == c.st.progress.last_favorite_index
    IN  FavoriteListShow([c EXCEPT !.st = DeleteFavorite(@, pid)], index)
        \cup StartMainMenu(
                 Yield(c, "favorite_list_failed", TRUE, FAVORITE_LIST, "respond", 0))

FavoriteListAddBlacklist(c) ==
    LET pid == c.st.progress.last_favorite_id
        index == c.st.progress.last_blacklist_index
        st1 == DeleteFavorite(c.st, pid)
    IN  (IF BlacklistExists(st1, pid)
         THEN {Raise(c, "integrity")}
         ELSE FavoriteListShow([c EXCEPT !.st = AddBlacklist(st1, pid)], index))
        \cup {CommitFailed(c),
              Yield(c, "add_to_blacklist_failed", TRUE, FAVORITE_LIST, "respond", pid)}

FavoriteListCommand(c, text, index) ==
    CASE text.val = "prev" -> FavoriteListShow(c, index - 1)
      [] text.val = "next" -> FavoriteListShow(c, index + 1)
      [] text.val = "delete_favorite" -> FavoriteListDeleteFavorite(c)
      [] text.val = "add_blacklist" -> FavoriteListAddBlacklist(c)
      [] text.val = "go_back" -> StartMainMenu(c)
      [] text.val = "help" ->
            {Yield(c, "menu_help", TRUE, FAVORITE_LIST, "respond", 0)}
      [] OTHER -> {c}

FavoriteListRespond(c, text) ==
    Then(SessionBegin(c), LAMBDA d :
        LET index == d.st.progress.last_favorite_index
            k == ShowKeyboard(d, FAVORITE_LIST, "respond")
        IN  IF ~IsCommandAccepted(text, FavoriteListOptions)
            THEN FavoriteListStart(
                     Yield(k, "unknown_command", FALSE, FAVORITE_LIST,
                           "unknown_command", 0))
            ELSE FavoriteListCommand(k, text, index))

(***************************************************************************)
(* BlacklistState                                                          *)
(***************************************************************************)
BlacklistOptions ==
    {"prev", "next", "add_favorite", "delete_blacklist", "go_back", "help"}

BlacklistEmpty(c) ==
    StartMainMenu(Yield(c, "blacklist_empty", TRUE, BLACKLIST, "show", 0))

BlacklistShowRecord(c, index, count) ==
    LET pid == GetBlacklistIndex(c.st, index)
    IN  IF pid = None THEN BlacklistEmpty(c)
        ELSE Then(GetUserProfile(c), LAMBDA d :
               Then(SessionBegin(d), LAMBDA e :
                 AttachProfilePhotos(
                   YieldIndexed(
                     [e EXCEPT !.st.progress.last_blacklist_index = index,
                               !.st.progress.last_blacklist_id = pid],
                     "blacklist_result", TRUE, BLACKLIST, "show",
                     pid, index + 1, count),
                   BLACKLIST, "show", pid)))

BlacklistShowInternal(c, index) ==
    Then(SessionBegin(c), LAMBDA d :
        LET count == GetBlacklistCount(d.st)
        IN  IF count = 0 THEN BlacklistEmpty(d)
            ELSE Then(SessionBegin(d), LAMBDA e :
                   BlacklistShowRecord(e, index % count, count)))

BlacklistShow(c, index) ==
    UNION {IF IsModelError(d) \/ IsProfileProviderError(d)
           THEN StartMainMenu(
                    Yield(Caught(d), "blacklist_failed", TRUE,
                          BLACKLIST, "show", 0))
           ELSE {d}
         : d \in BlacklistShowInternal(c, index)}

BlacklistStart(c) ==
    BlacklistShow(ShowKeyboard(c, BLACKLIST, "start"), 0)

BlacklistDeleteBlacklist(c) ==
    LET pid == c.st.progress.last_blacklist_id
        index == c.st.progress.last_blacklist_index
    IN  BlacklistShow([c EXCEPT !.st = DeleteBlacklist(@, pid)], index)
        \cup StartMainMenu(
                 Yield(c, "blacklist_failed", TRUE, BLACKLIST, "respond", 0))

BlacklistAddFavorite(c) ==
    LET pid == c.st.progress.last_blacklist_id
        index == c.st.progress.last_blacklist_index
        st1 == DeleteBlacklist(c.st, pid)
    IN  (IF FavoriteExists(st1, pid)
         THEN {Raise(c, "integrity")}
         ELSE BlacklistShow([c EXCEPT !.st = AddFavorite(st1, pid)], index))
        \cup {CommitFailed(c),
              Yield(c, "add_to_favorite_failed", TRUE, BLACKLIST, "respond", pid)}

BlacklistCommand(c, text, index) ==
    CASE text.val = "prev" -> BlacklistShow(c, index - 1)
      [] text.val = "next" -> BlacklistShow(c, index + 1)
      [] text.val = "add_favorite" -> BlacklistAddFavorite(c)
      [] text.val = "delete_blacklist" -> BlacklistDeleteBlacklist(c)
      [] text.val = "go_back" -> StartMainMenu(c)
      [] text.val = "help" ->
            {Yield(c, "menu_help", TRUE, BLACKLIST, "respond", 0)}
      [] OTHER -> {c}

BlacklistRespond(c, text) ==
    Then(SessionBegin(c), LAMBDA d :
        LET index == d.st.progress.last_blacklist_index
            k == ShowKeyboard(d, BLACKLIST, "respond")
        IN  IF ~IsCommandAccepted(text, BlacklistOptions)
            THEN BlacklistStart(
                     Yield(k, "unknown_command", FALSE, BLACKLIST,
                           "unknown_command", 0))
            ELSE BlacklistCommand(k, text, index))

(***************************************************************************)
(* StateManager.start, StateManager.start_search                           *)
(***************************************************************************)
StartSearch(c) ==
    Then(UpdateUserState(c, SEARCHING),
         LAMBDA d : SearchingStart(Entering(d, SEARCHING)))

\* Variant: the Favorite button starts a state StateManager has no handler
\* for.
StartFavoriteList_Unregistered(c) ==
    Then(UpdateUserState(c, AUTH),
         LAMBDA d : {Raise(Entering(d, AUTH), "not_implemented")})

StartFavoriteList(c) ==
    Then(UpdateUserState(c, FAVORITE_LIST),
         LAMBDA d : FavoriteListStart(Entering(d, FAVORITE_LIST)))

(***************************************************************************)
(* MainMenuState.respond                                                   *)
(***************************************************************************)
MainMenuProfile(c) ==
    Then(SessionBegin(c), LAMBDA d :
        Then(AttachProfilePhotos(
                 Yield(d, "your_profile", TRUE, MAIN_MENU, "respond", 0),
                 MAIN_MENU, "respond", 0),
             MainMenuStart))

MainMenuCommand(c, text) ==
    CASE text.val = "search" -> StartSearch(c)
      [] text.val = "profile" -> MainMenuProfile(c)
      [] text.val = "favorite" -> StartFavoriteList(c)
      [] text.val = "help" ->
            MainMenuStart(Yield(c, "menu_help", TRUE, MAIN_MENU, "respond", 0))
      [] OTHER -> {c}

MainMenuRespond(c, text) ==
    Then(SessionBegin(c), LAMBDA d :
        LET k == ShowKeyboard(d, MAIN_MENU, "respond")
        IN  IF ~IsCommandAccepted(text, MainMenuOptions)
            THEN MainMenuStart(
                     Yield(k, "unknown_command", FALSE, MAIN_MENU,
                           "unknown_command", 0))
            ELSE MainMenuCommand(k, text))

(***************************************************************************)
(* NewUserState                                                            *)
(***************************************************************************)
NewUserStart(c) ==
    StartMainMenu(Yield(c, "greet_new_user", TRUE, NEW_USER, "start", 0))

NewUserRespond(c, text) == NewUserStart(c)

(***************************************************************************)
(* StateManager.respond: get_state(message.user.state).respond             *)
(***************************************************************************)
ManagerRespond(c, text) ==
    CASE c.st.state = NEW_USER -> NewUserRespond(c, text)
      [] c.st.state = MAIN_MENU -> MainMenuRespond(c, text)
      [] c.st.state = SEARCHING -> SearchingRespond(c, text)
      [] c.st.state = FAVORITE_LIST -> FavoriteListRespond(c, text)
      [] c.st.state = BLACKLIST -> BlacklistRespond(c, text)
      [] OTHER -> {Raise(c, "not_implemented")}

\* get_state(state).start
StateStart(c, state) ==
    CASE state = NEW_USER -> NewUserStart(c)
      [] state = MAIN_MENU -> MainMenuStart(c)
      [] state = SEARCHING -> SearchingStart(c)
      [] state = FAVORITE_LIST -> FavoriteListStart(c)
      [] state = BLACKLIST -> BlacklistStart(c)
      [] OTHER -> {Raise(c, "not_implemented")}

\* The values of UserState and those StateManager.__init__ registers a
\* handler for
UserStates == {NEW_USER, MAIN_MENU, SEARCHING, AUTH, FAVORITE_LIST, BLACKLIST}
RegisteredStates == {NEW_USER, MAIN_MENU, SEARCHING, FAVORITE_LIST, BLACKLIST}

\* StateManager.start(user_state): _update_user_state, then get_state, then
\* the responses of the state's start
StartState(c, state) ==
    Then(UpdateUserState(c, state),
         LAMBDA d : StateStart(Entering(d, state), state))

\* get_state(state).MENU_OPTIONS (NewUserState inherits MainMenuState's)
MenuOptions(state) ==
    CASE state = NEW_USER -> MainMenuOptions
      [] state = MAIN_MENU -> MainMenuOptions
      [] state = SEARCHING -> SearchingOptions
      [] state = FAVORITE_LIST -> FavoriteListOptions
      [] state = BLACKLIST -> BlacklistOptions
      [] OTHER -> {}

(***************************************************************************)
(* AuthState and State.get_user_token.  The StateManager that registers    *)
(* AuthState (the one Controller constructs with an auth provider) is not  *)
(* among the sources: AuthStateStart takes the registration of             *)
(* UserState.AUTH from the specification's state table.                    *)
(***************************************************************************)
AuthOptions == {"auth_begin", "auth_finished", "go_back", "help"}

\* The MenuToken of the buttons of the state's keyboard: the KEYBOARD class
\* attribute, and for AuthState the keyboard _create_keyboard builds.
KeyboardTokens(state) ==
    CASE state = MAIN_MENU -> {"search", "profile", "favorite", "help"}
      [] state = SEARCHING ->
            {"next", "add_favorite", "add_blacklist", "go_back", "help"}
      [] state = FAVORITE_LIST ->
            {"prev", "next", "delete_favorite", "add_blacklist", "go_back", "help"}
      [] state = BLACKLIST ->
            {"prev", "next", "add_favorite", "delete_blacklist", "go_back", "help"}
      [] state = AUTH -> {"auth_begin", "auth_finished", "go_back", "help"}
      [] OTHER -> {}

\* cls.MENU_OPTIONS of the state's class
AcceptedTokens(state) ==
    IF state = AUTH THEN AuthOptions ELSE MenuOptions(state)

AuthStart(c) ==
    Then(SessionBegin(c), LAMBDA d :
        {Yield(Yield(ShowKeyboard(d, AUTH, "start"),
                     "auth_required", TRUE, AUTH, "start", 0),
               "select_menu", TRUE, AUTH, "start", 0)})

\* get_user_token: None without auth data; the stored token when
\* validate_access_token accepts it; otherwise refresh_auth either raises
\* AuthProviderRefreshError (None) or returns a record, which is saved.
GetUserToken(c) ==
    Then(SessionBegin(c), LAMBDA d :
        IF ~d.st.auth_data
        THEN {[d EXCEPT !.token = "none"]}
        ELSE {[d EXCEPT !.token = "valid"], [d EXCEPT !.token = "none"]}
               \cup Then(SessionBegin(d),
                         LAMBDA e : {[e EXCEPT !.token = "refreshed"]}))

\* get_state(state).start with AuthState registered
AuthStateStart(c, state) ==
    IF state = AUTH THEN AuthStart(c) ELSE StateStart(c, state)

\* StateManager.start(state)
ManagerStart(c, state) ==
    Then(UpdateUserState(c, state),
         LAMBDA d : AuthStateStart(Entering(d, state), state))

\* Variant: a finished authorization leads to the main menu.
AuthFinished_ToMainMenu(c, target) ==
    IF c.token = "none"
    THEN AuthStart(Yield(c, "auth_not_completed", TRUE, AUTH, "respond", 0))
    ELSE StartMainMenu(c)

\* case MenuToken.AUTH_FINISHED
AuthFinished(c, target) ==
    IF c.token = "none"
    THEN AuthStart(Yield(c, "auth_not_completed", TRUE, AUTH, "respond", 0))
    ELSE ManagerStart(c, target)

AuthCommand(c, text, target) ==
    CASE text.val = "auth_finished" -> AuthFinished(c, target)
      [] text.val = "go_back" -> StartMainMenu(c)
      [] text.val = "help" ->
            AuthStart(Yield(c, "menu_help", TRUE, AUTH, "respond", 0))
      [] OTHER -> {c}

AuthRespond(c, text) ==
    Then(SessionBegin(c), LAMBDA d :
        LET target == d.st.progress.last_state
            k == ShowKeyboard(d, AUTH, "respond")
        IN  IF ~IsCommandAccepted(text, AuthOptions)
            THEN AuthStart(
                     Yield(k, "unknown_command", FALSE, AUTH, "unknown_command", 0))
            ELSE Then(GetUserToken(k), LAMBDA e : AuthCommand(e, text, target)))

(***************************************************************************)
(* view.message: render_messages, squash_message, render_response.         *)
(* A Response carries a text, a keyboard or media; here the i-th response  *)
(* of a stream carries the text ToString(i), the keyboard i or the media   *)
(* list <<i>>.                                                             *)
(***************************************************************************)
MaxResponses == 4   \* longest response stream rendered

PARAGRAPH_SEPARATOR == "\n\n"

ResponseKinds == {"text", "keyboard", "media"}

ResponseAt(i, kind, allow_squash) ==
    [allow_squash |-> allow_squash,
     text |-> IF kind = "text" THEN ToString(i) ELSE "",
     keyboard |-> IF kind = "keyboard" THEN i ELSE None,
     media |-> IF kind = "media" THEN <<i>> ELSE <<>>]

ResponseStreams ==
    UNION {{[i \in 1..n |-> ResponseAt(i, f[i].kind, f[i].allow_squash)]
              : f \in [1..n -> [kind : ResponseKinds, allow_squash : BOOLEAN]]}
           : n \in 0..MaxResponses}

CreateMessage(text, keyboard, media) ==
    [text |-> text, keyboard |-> keyboard, media |-> media]

\* render_response: _render_generic and the like give a text,
\* _render_with_keyboard a keyboard, _render_with_media the media.
RenderResponse(response) ==
    CreateMessage(response.text, response.keyboard, response.media)

\* str.join
RECURSIVE Join(_)
Join(paragraphs) ==
    IF paragraphs = <<>> THEN ""
    ELSE IF Len(paragraphs) = 1 THEN paragraphs[1]
    ELSE paragraphs[1] \o PARAGRAPH_SEPARATOR \o Join(Tail(paragraphs))

SquashMessage(paragraphs, keyboard, media) ==
    CreateMessage(Join(paragraphs), keyboard, media)

\* The generator before its first step.  `since` and `spans` are history:
\* the first response consumed after the accumulator was last cleared, and
\* for each message given the responses <<first, last>> consumed since
\* then and whether it came from squash_message.
StartRender(stream) ==
    [responses |-> stream, pos |-> 0, keyboard |-> None, paragraphs |-> <<>>,
     media |-> <<>>, messages |-> <<>>, done |-> FALSE,
     since |-> 1, spans |-> <<>>]

NoRender == StartRender(<<>>)

\* `if paragraphs:` yield squash_message(...), without the clearing
RenderGive(r) ==
    IF r.paragraphs # <<>>
    THEN [r EXCEPT
            !.messages = Append(@, SquashMessage(r.paragraphs, r.keyboard, r.media)),
            !.spans = Append(@, [first |-> r.since, last |-> r.pos, squashed |-> TRUE])]
    ELSE r

\* the branch `if not response.allow_squash:`
RenderStandalone(r, response) ==
    LET g == RenderGive(r)
        c == IF r.paragraphs # <<>>
             THEN [g EXCEPT !.keyboard = None, !.paragraphs = <<>>,
                            !.media = <<>>, !.since = r.pos + 1]
             ELSE g
    IN  [c EXCEPT !.messages = Append(@, RenderResponse(response)),
                  !.spans = Append(@, [first |-> r.pos + 1, last |-> r.pos + 1,
                                       squashed |-> FALSE]),
                  !.pos = r.pos + 1]

\* Variant: the first keyboard met is kept.
RenderSquashable_FirstKeyboard(r, response) ==
    LET message == RenderResponse(response)
    IN  [r EXCEPT
            !.keyboard = IF @ # None THEN @ ELSE message.keyboard,
            !.paragraphs = IF message.text # "" THEN Append(@, message.text) ELSE @,
            !.media = @ \o message.media,
            !.pos = r.pos + 1]

\* the rest of the loop body, for a response that allows squashing
RenderSquashable(r, response) ==
    LET message == RenderResponse(response)
    IN  [r EXCEPT
            !.keyboard = IF message.keyboard # None THEN message.keyboard ELSE @,
            !.paragraphs = IF message.text # "" THEN Append(@, message.text) ELSE @,
            !.media = @ \o message.media,
            !.pos = r.pos + 1]

(***************************************************************************)
(* The search cache of SearchingState: _get_cache_record, _save_to_cache,  *)
(* _request_new_search_results, _get_search_results.  Time is counted in   *)
(* minutes.                                                                *)
(***************************************************************************)
CACHE_EXPIRE_DELAY == 5

\* the user ids the cache is keyed by
CacheUsers == {1, 2}

\* what one profile_provider.search_users call can return
SearchUsersResults == {<<>>, <<1>>}

EmptyCache == [u \in {} |-> <<>>]

\* `None` as the result of _get_cache_record
NoRecord == [profiles |-> <<>>, expire_time |-> None]

\* Variant: a record is dropped only after its expire_time has passed.
GetCacheRecord_AfterExpiry(cache, user_id, t) ==
    IF user_id \notin DOMAIN cache
    THEN [record |-> NoRecord, cache |-> cache]
    ELSE IF t > cache[user_id].expire_time
    THEN [record |-> NoRecord,
          cache |-> [u \in DOMAIN cache \ {user_id} |-> cache[u]]]
    ELSE [record |-> cache[user_id], cache |-> cache]

\* _get_cache_record at time t: the returned record and the cache it leaves
GetCacheRecord(cache, user_id, t) ==
    IF user_id \notin DOMAIN cache
    THEN [record |-> NoRecord, cache |-> cache]
    ELSE IF t >= cache[user_id].expire_time
    THEN [record |-> NoRecord,
          cache |-> [u \in DOMAIN cache \ {user_id} |-> cache[u]]]
    ELSE [record |-> cache[user_id], cache |-> cache]

\* _save_to_cache at time t
SaveToCache(cache, user_id, profiles, t) ==
    [u \in DOMAIN cache \cup {user_id} |->
        IF u = user_id
        THEN [profiles |-> profiles, expire_time |-> t + CACHE_EXPIRE_DELAY]
        ELSE cache[u]]

\* _request_new_search_results: the RELEVANT pass followed by the NEWEST pass
RequestNewSearchResults ==
    {relevant \o newest : relevant \in SearchUsersResults,
                          newest \in SearchUsersResults}

NoResult ==
    [user_id |-> 0, at |-> 0, before |-> NoRecord, record |-> NoRecord,
     cached |-> FALSE, calls |-> 0, failed |-> FALSE, profiles |-> <<>>]

\* What a _get_search_results call did: `before` is the user's cache entry
\* when the call began, `record` what _get_cache_record returned at time
\* `at`, `cached` whether the user still had an entry when it returned,
\* `calls` the number of search_users calls.
CacheResult(user_id, g, calls, failed, profiles) ==
    [user_id |-> user_id, at |-> now,
     before |-> IF user_id \in DOMAIN search_cache
                THEN search_cache[user_id] ELSE NoRecord,
     record |-> g.record,
     cached |-> user_id \in DOMAIN g.cache,
     calls |-> calls, failed |-> failed, profiles |-> profiles]

(***************************************************************************)
(* Controller.handle_message                                               *)
(***************************************************************************)
\* The Store of a user the bot has not seen: no rows.  The rows of a user
\* who was stored as a new user and has nothing else stored read the same.
NoStore ==
    [state |-> NEW_USER, progress |-> DefaultProgress,
     favorites |-> <<>>, blacklist |-> <<>>, auth_data |-> FALSE]

UserExists(st) == st # NoStore

\* Variant: the state of the User object built from the provider's answer
\* (the column default) is stored.
AddOrUpdateUser_FreshState(st) == [st EXCEPT !.state = NEW_USER]

\* add_or_update_user: the User object built from the provider's answer
\* takes the state of the stored row and replaces its other fields; a user
\* without a row is stored with NEW_USER.
AddOrUpdateUser(st) ==
    IF UserExists(st)
    THEN [st EXCEPT !.state = st.state]
    ELSE [st EXCEPT !.state = NEW_USER]

\* _event_to_message: the user's profile is fetched from the provider and
\* saved, the progress row is read; either step can fail, and then the
\* message is dropped by start_message_loop.
EventToMessage(c) ==
    Then(SessionBegin(c), LAMBDA d : {[d EXCEPT !.st = AddOrUpdateUser(d.st)]})
        \cup {Raise(c, "api")}

Commit(c, command, text) ==
    /\ user_state' = c.st.state
    /\ progress' = c.st.progress
    /\ favorites' = c.st.favorites
    /\ blacklist' = c.st.blacklist
    /\ auth_data' = c.st.auth_data
    /\ responses' = c.log
    /\ turn' = [command |-> command, text |-> text, before |-> Store,
                exc |-> c.exc, errs |-> c.errs, nsearch |-> c.nsearch,
                token |-> c.token, fetched |-> c.fetched,
                fetch_failed |-> c.fetch_failed, entered |-> c.entered]
    /\ UNCHANGED <<search_cache, now, cache_result, render,
                   candidate, loop, sessions>>

NoTurn ==
    [command |-> "none", text |-> [token |-> FALSE, val |-> ""],
     before |-> NoStore, exc |-> "none", errs |-> {}, nsearch |-> 0,
     token |-> "unset", fetched |-> FALSE, fetch_failed |-> FALSE,
     entered |-> "none"]

\* The message loop takes the next message only when the previous one has
\* been handled to the end.
Idle == turn.command = "none"

\* start_message_loop before its first check_messages call: no event
\* received, none in the current batch, the auth queue empty.
NoLoop ==
    [pc |-> "check", events |-> 0, batch |-> 0,
     auth_queue |-> <<>>, saved |-> <<>>,
     sent |-> 0, put |-> 0]

\* AuthService.__init__: the three dicts empty, no token generated yet, the
\* bot thread outside create_auth_link, the server thread outside
\* _callback_route.  With one user a dict keyed by session id is the set of
\* its keys, and _user_session is the user's session id (0: no entry).
NoSessions ==
    [user_session |-> 0, session_user |-> {}, session_data |-> {},
     issued |-> 0,
     bot |-> [pc |-> "idle", session |-> 0],
     server |-> [pc |-> "idle", session |-> 0],
     links |-> {}, state |-> 0, verifier |-> 0, result |-> "none",
     cleared |-> {}, key_error |-> {}]

\* _event_to_message raises: no handler runs, whatever the text was
ReceiveFailed ==
    /\ Idle
    /\ \E c \in {d \in EventToMessage(Begin(Store)) : d.exc # "none"} :
          Commit(c, "receive", [token |-> FALSE, val |-> ""])

\* _event_to_message returned the InputMessage
Received == {d \in EventToMessage(Begin(Store)) : d.exc = "none"}

\* Command.START, a tuple of words (the two Russian words of the tuple behave
\* as "start" does).
START == {"start", "/start"}

\* The raw text of an event: a word, written in lower case or not, with or
\* without surrounding blanks.
EventTexts ==
    [word : START \cup {"started", "search"}, lower : BOOLEAN, stripped : BOOLEAN]

\* _get_command_handler: text.lower().strip() is looked up in each Command
\* tuple; no match gives the default handler StateManager.respond.
GetCommandHandler(text) ==
    LET lowered == [text EXCEPT !.lower = TRUE]
        stripped == [lowered EXCEPT !.stripped = TRUE]
    IN  IF stripped.lower /\ stripped.stripped /\ stripped.word \in START
        THEN "start_main_menu" ELSE "respond"

\* a text that is one of Command.START: the handler is start_main_menu
StartCommand ==
    /\ Idle
    /\ {text \in EventTexts : GetCommandHandler(text) = "start_main_menu"} # {}
    /\ \E c \in Then(Received, StartMainMenu) :
          Commit(c, "start", [token |-> FALSE, val |-> "start"])

\* The texts sent to a user in `state`: the tokens of the state's menu, one
\* token of another menu, and a raw text.
InputTexts(state) ==
    LET foreign == CHOOSE t \in MenuToken : t \notin MenuOptions(state)
    IN  {Tok(t) : t \in MenuOptions(state) \cup {foreign}}
            \cup {text \in Texts : ~text.token}

\* any other text: the handler is StateManager.respond
RespondMessage ==
    /\ Idle
    /\ \E text \in InputTexts(user_state) :
          \E c \in Then(Received, LAMBDA d : ManagerRespond(d, text)) :
              Commit(c, "respond", text)

\* The responses of the turn are rendered and sent (a failed send is logged
\* and skipped); handle_message returns.
SendMessages ==
    /\ ~Idle
    /\ responses' = <<>>
    /\ turn' = NoTurn
    /\ UNCHANGED <<user_state, progress, favorites, blacklist, auth_data,
                   search_cache, now, cache_result, render,
                   candidate, loop, sessions>>

Init ==
    /\ user_state = NEW_USER
    /\ progress = DefaultProgress
    /\ favorites = <<>>
    /\ blacklist = <<>>
    /\ auth_data = FALSE
    /\ responses = <<>>
    /\ turn = NoTurn
    /\ search_cache = EmptyCache
    /\ now = 0
    /\ loop = NoLoop
    /\ sessions = NoSessions
    /\ cache_result = NoResult
    /\ render = NoRender
    /\ candidate = NoCandidate

Next == ReceiveFailed \/ StartCommand \/ RespondMessage \/ SendMessages

Spec == Init /\ [][Next]_vars

(***************************************************************************)
(* The search cache on its own: _get_search_results called for the users   *)
(* of CacheUsers while time passes.                                        *)
(***************************************************************************)
\* The clock values _save_to_cache can read after _get_cache_record read
\* `now`: the provider calls in between take time.
LaterTimes == {t \in {now, now + 1} : t <= MaxTime}

GetSearchResults(user_id) ==
    LET g == GetCacheRecord(search_cache, user_id, now)
    IN  /\ UNCHANGED <<user_state, progress, favorites, blacklist, auth_data,
                       responses, turn, render, candidate, loop, sessions>>
        /\ IF g.record # NoRecord
           THEN /\ search_cache' = g.cache
                /\ now' = now
                /\ cache_result' =
                       CacheResult(user_id, g, 0, FALSE, g.record.profiles)
           ELSE \E t \in LaterTimes :
                  /\ now' = t
                  /\ \/ \E profiles \in RequestNewSearchResults :
                           /\ search_cache' =
                                  SaveToCache(g.cache, user_id, profiles, t)
                           /\ cache_result' =
                                  CacheResult(user_id, g, 2, FALSE, profiles)
                     \/ \E calls \in {1, 2} :
                           \* search_users raises: nothing is saved
                           /\ search_cache' = g.cache
                           /\ cache_result' =
                                  CacheResult(user_id, g, calls, TRUE, <<>>)

Tick ==
    /\ now < MaxTime
    /\ now' = now + 1
    /\ UNCHANGED <<user_state, progress, favorites, blacklist, auth_data,
                   responses, turn, search_cache, cache_result, render,
                   candidate, loop, sessions>>

CacheNext == (\E user_id \in CacheUsers : GetSearchResults(user_id)) \/ Tick

CacheSpec == Init /\ [][CacheNext]_vars

(***************************************************************************)
(* The authorization detour on its own: a user who is in one of the        *)
(* states of AuthInitStores is sent to the Auth state (as the              *)
(* specification describes for a rejected access token), answers there,    *)
(* and the authorization server delivers auth data in between.             *)
(***************************************************************************)
\* Store contents in which Spec leaves a user: in the main menu after the
\* start command, in Searching with profile 1 shown, in the favorite list
\* with profile 1 shown.
AuthInitStores ==
    {[NoStore EXCEPT !.state = MAIN_MENU, !.progress.last_state = NEW_USER],
     [NoStore EXCEPT !.state = SEARCHING, !.progress.last_found_id = 1],
     [NoStore EXCEPT !.state = FAVORITE_LIST, !.progress.last_found_id = 1,
                     !.progress.last_favorite_id = 1, !.favorites = <<1>>]}

AuthInit ==
    /\ \E st \in AuthInitStores :
          /\ user_state = st.state
          /\ progress = st.progress
          /\ favorites = st.favorites
          /\ blacklist = st.blacklist
          /\ auth_data = st.auth_data
    /\ responses = <<>>
    /\ turn = NoTurn
    /\ search_cache = EmptyCache
    /\ now = 0
    /\ loop = NoLoop
    /\ sessions = NoSessions
    /\ cache_result = NoResult
    /\ render = NoRender
    /\ candidate = NoCandidate

\* A handler finds the user's access token rejected and starts the Auth
\* state.
TokenRejected ==
    /\ Idle
    /\ user_state # AUTH
    /\ \E c \in Then(EventToMessage(Begin(Store)),
                      LAMBDA d : ManagerStart(d, AUTH)) :
          Commit(c, "detour", [token |-> FALSE, val |-> ""])

\* StateManager.respond for a user in the Auth state
AuthRespondMessage ==
    /\ Idle
    /\ user_state = AUTH
    /\ \E text \in Texts :
          \E c \in Then(EventToMessage(Begin(Store)),
                        LAMBDA d : AuthRespond(d, text)) :
              Commit(c, "respond", text)

\* Controller.handle_auth_record: the auth data of a completed authorization
\* is stored between two messages.
HandleAuthRecord ==
    /\ Idle
    /\ ~auth_data
    /\ auth_data' = TRUE
    /\ UNCHANGED <<user_state, progress, favorites, blacklist, responses, turn,
                   search_cache, now, cache_result, render,
                   candidate, loop, sessions>>

AuthNext == TokenRejected \/ AuthRespondMessage \/ HandleAuthRecord \/ SendMessages

AuthSpec == AuthInit /\ [][AuthNext]_vars

(***************************************************************************)
(* render_messages on its own: the generator is run over each stream of    *)
(* ResponseStreams, one response per step.                                 *)
(***************************************************************************)
RenderInit ==
    /\ user_state = NEW_USER
    /\ progress = DefaultProgress
    /\ favorites = <<>>
    /\ blacklist = <<>>
    /\ auth_data = FALSE
    /\ responses = <<>>
    /\ turn = NoTurn
    /\ search_cache = EmptyCache
    /\ now = 0
    /\ loop = NoLoop
    /\ sessions = NoSessions
    /\ cache_result = NoResult
    /\ \E stream \in ResponseStreams : render = StartRender(stream)
    /\ candidate = NoCandidate

\* one iteration of `for response in responses:`
RenderNextResponse ==
    /\ render.pos < Len(render.responses)
    /\ LET response == render.responses[render.pos + 1]
       IN  render' = IF ~response.allow_squash
                     THEN RenderStandalone(render, response)
                     ELSE RenderSquashable(render, response)
    /\ UNCHANGED <<user_state, progress, favorites, blacklist, auth_data,
                   responses, turn, search_cache, now, cache_result,
                   candidate, loop, sessions>>

\* the loop is over: `if paragraphs:` give the last message
RenderLast ==
    /\ render.pos = Len(render.responses)
    /\ ~render.done
    /\ render' = [RenderGive(render) EXCEPT !.done = TRUE]
    /\ UNCHANGED <<user_state, progress, favorites, blacklist, auth_data,
                   responses, turn, search_cache, now, cache_result,
                   candidate, loop, sessions>>

RenderNext == RenderNextResponse \/ RenderLast

RenderSpec == RenderInit /\ [][RenderNext]_vars

(***************************************************************************)
(* The loop body of _search on its own: for each requester of              *)
(* RequesterViews and each profile of CandidateViews that get_user_profile *)
(* can return, the query is built and the profile tested against it.       *)
(***************************************************************************)
CandidateInit ==
    /\ user_state = NEW_USER
    /\ progress = DefaultProgress
    /\ favorites = <<>>
    /\ blacklist = <<>>
    /\ auth_data = FALSE
    /\ responses = <<>>
    /\ turn = NoTurn
    /\ search_cache = EmptyCache
    /\ now = 0
    /\ loop = NoLoop
    /\ sessions = NoSessions
    /\ cache_result = NoResult
    /\ render = NoRender
    /\ \E user \in RequesterViews, profile \in CandidateViews :
          candidate = [user |-> user, profile |-> profile,
                       tested |-> FALSE, found |-> FALSE]

\* _get_search_query, then (when it gave a query) get_user_profile and
\* `if self._is_profile_relevant(profile, query): break`
TestCandidate ==
    /\ ~candidate.tested
    /\ candidate' =
          [candidate EXCEPT
             !.tested = TRUE,
             !.found =
                IF SearchQueryError(candidate.user) # "ok" THEN FALSE
                ELSE FetchOutcome(Begin(Store), TEST_LIST[1],
                                  GetSearchQuery(candidate.user),
                                  candidate.profile).found.id # None]
    /\ UNCHANGED <<user_state, progress, favorites, blacklist, auth_data,
                   responses, turn, search_cache, now, cache_result, render, loop,
                   sessions>>

CandidateSpec == CandidateInit /\ [][TestCandidate]_vars

(***************************************************************************)
(* Browsing the favorite list on its own: a user who has classified up to  *)
(* MaxListed profiles and is looking at one of the favorites answers in    *)
(* the FavoriteList state until the bot leaves it.                         *)
(***************************************************************************)
MaxListed == 3      \* profile ids 1..MaxListed are in the user's lists

\* The duplicate-free lists of the ids
Lists(ids) ==
    UNION {{f \in [1..n -> ids] : \A i, j \in 1..n : i # j => f[i] # f[j]}
             : n \in 0..Cardinality(ids)}

\* Store contents of a user in the favorite list: entered from the main
\* menu, the record at `index` shown, the last candidate found being the
\* newest favorite, the other found profiles in the blacklist or in neither.
BrowseInitStores ==
    UNION {UNION {
        {[NoStore EXCEPT !.state = FAVORITE_LIST,
                         !.favorites = f,
                         !.blacklist = b,
                         !.progress.last_found_id = f[Len(f)],
                         !.progress.last_favorite_index = index,
                         !.progress.last_favorite_id = f[index + 1]]
           : index \in 0..(Len(f) - 1)}
        : b \in Lists((1..MaxListed) \ Range(f))}
      : f \in Lists(1..MaxListed) \ {<<>>}}

BrowseInit ==
    /\ \E st \in BrowseInitStores :
          /\ user_state = st.state
          /\ progress = st.progress
          /\ favorites = st.favorites
          /\ blacklist = st.blacklist
          /\ auth_data = st.auth_data
    /\ responses = <<>>
    /\ turn = NoTurn
    /\ search_cache = EmptyCache
    /\ now = 0
    /\ loop = NoLoop
    /\ sessions = NoSessions
    /\ cache_result = NoResult
    /\ render = NoRender
    /\ candidate = NoCandidate

\* a text sent while the user is in the favorite list
BrowseRespondMessage == user_state = FAVORITE_LIST /\ RespondMessage

BrowseNext == BrowseRespondMessage \/ SendMessages

BrowseSpec == BrowseInit /\ [][BrowseNext]_vars

(***************************************************************************)
(* Controller.start_message_loop with its two sources of work: the events  *)
(* of the VK long poll and the queue filled by the thread of the           *)
(* authorization server.  loop.pc is the position of the loop's thread:    *)
(* "check" before check_messages, "auth" in process_auth_queue, "handle"   *)
(* in handle_message, "stopped" after an exception left the loop.          *)
(***************************************************************************)
MaxEvents == 3      \* messages the user sends
MaxRecords == 2     \* records the authorization server puts into the queue

LoopUnchanged ==
    UNCHANGED <<user_state, progress, favorites, blacklist, auth_data,
                responses, turn, search_cache, now, cache_result, render,
                candidate, sessions>>

\* The user sends a message: the long poll server holds one more event.
UserSends ==
    /\ loop.sent < MaxEvents
    /\ loop' = [loop EXCEPT !.events = @ + 1, !.sent = @ + 1]
    /\ LoopUnchanged

\* The thread of the authorization server: self._queue.put(record)
AuthServerPut ==
    /\ loop.put < MaxRecords
    /\ loop' = [loop EXCEPT !.auth_queue = Append(@, loop.put + 1), !.put = @ + 1]
    /\ LoopUnchanged

\* check_messages returns the list of the new events; the for loop runs over
\* it, and process_auth_queue is called before each of them and after the
\* last one.
CheckMessages ==
    /\ loop.pc = "check"
    /\ loop' = [loop EXCEPT !.batch = loop.events, !.events = 0, !.pc = "auth"]
    /\ LoopUnchanged

\* Variant: the record is stored by the thread that received it.
LoopHandleAuthRecord_AnyThread ==
    /\ loop.auth_queue # <<>>
    /\ loop' = [loop EXCEPT !.auth_queue = Tail(@),
                            !.saved = Append(@, Head(loop.auth_queue))]
    /\ auth_data' = TRUE
    /\ UNCHANGED <<user_state, progress, favorites, blacklist, responses, turn,
                   search_cache, now, cache_result, render, candidate,
                   sessions>>

\* Variant: the newest record of the queue is taken.
LoopHandleAuthRecord_Newest ==
    /\ loop.pc = "auth"
    /\ loop.auth_queue # <<>>
    /\ loop' = [loop EXCEPT
                   !.auth_queue = SubSeq(@, 1, Len(@) - 1),
                   !.saved = Append(@, loop.auth_queue[Len(loop.auth_queue)])]
    /\ auth_data' = TRUE
    /\ UNCHANGED <<user_state, progress, favorites, blacklist, responses, turn,
                   search_cache, now, cache_result, render, candidate,
                   sessions>>

\* process_auth_queue takes the oldest record (get_nowait of a FIFO queue):
\* handle_auth_record stores it, or its transaction fails and the exception
\* leaves start_message_loop; loop.saved lists the records stored.
LoopHandleAuthRecord ==
    /\ loop.pc = "auth"
    /\ loop.auth_queue # <<>>
    /\ \/ /\ loop' = [loop EXCEPT !.auth_queue = Tail(@),
                                  !.saved = Append(@, Head(loop.auth_queue))]
          /\ auth_data' = TRUE
       \/ /\ loop' = [loop EXCEPT !.auth_queue = Tail(@), !.pc = "stopped"]
          /\ UNCHANGED auth_data
    /\ UNCHANGED <<user_state, progress, favorites, blacklist, responses, turn,
                   search_cache, now, cache_result, render, candidate,
                   sessions>>

\* process_auth_queue finds the queue empty and returns: the next event of
\* the batch is handled, or the loop checks for messages again.
AuthQueueEmpty ==
    /\ loop.pc = "auth"
    /\ loop.auth_queue = <<>>
    /\ loop' = [loop EXCEPT !.pc = IF loop.batch > 0 THEN "handle" ELSE "check"]
    /\ LoopUnchanged

\* handle_message up to the handler's responses
LoopHandleMessage ==
    /\ loop.pc = "handle"
    /\ (ReceiveFailed \/ StartCommand \/ RespondMessage)

\* handle_message renders and sends the responses and returns (its
\* ModelError and VkServiceError are caught by the loop); the for loop goes
\* on.  Any other exception of the handler leaves start_message_loop.
LoopSendMessages ==
    /\ loop.pc = "handle"
    /\ ~Idle
    /\ responses' = <<>>
    /\ turn' = NoTurn
    /\ loop' = [loop EXCEPT
                   !.batch = @ - 1,
                   !.pc = IF turn.exc \in {"none", "model", "api", "token"}
                          THEN "auth" ELSE "stopped"]
    /\ UNCHANGED <<user_state, progress, favorites, blacklist, auth_data,
                   search_cache, now, cache_result, render, candidate,
                   sessions>>

LoopNext ==
    \/ UserSends
    \/ AuthServerPut
    \/ CheckMessages
    \/ LoopHandleAuthRecord
    \/ AuthQueueEmpty
    \/ LoopHandleMessage
    \/ LoopSendMessages

LoopSpec == Init /\ [][LoopNext]_vars

(***************************************************************************)
(* The message loop of a user who sends start words only, with the thread  *)
(* of the loop running whenever it can: the specification of what          *)
(* eventually happens to the auth records.                                 *)
(***************************************************************************)
QueueHandleMessage ==
    /\ loop.pc = "handle"
    /\ (ReceiveFailed \/ StartCommand)

\* The steps of the loop's thread
QueueThread ==
    \/ CheckMessages
    \/ LoopHandleAuthRecord
    \/ AuthQueueEmpty
    \/ QueueHandleMessage
    \/ LoopSendMessages

\* The user and the authorization server act when they like.
QueueNext == UserSends \/ AuthServerPut \/ QueueThread

QueueSpec == Init /\ [][QueueNext]_vars /\ WF_vars(QueueThread)

(***************************************************************************)
(* AuthService: create_auth_link runs on the bot's thread (AuthState       *)
(* builds its keyboard with it), _callback_route on the thread of the      *)
(* authorization server.  The class holds no lock, so the two interleave   *)
(* between any two dict operations; one action is one dict operation.      *)
(***************************************************************************)
MaxLinks == 2       \* create_auth_link calls

\* Neither thread touches the database, the turn or the message loop
SessionsFrame ==
    UNCHANGED <<user_state, progress, favorites, blacklist, auth_data,
                responses, turn, search_cache, now, cache_result, render,
                candidate, loop>>

\* A thread outside AuthService
AtRest == [pc |-> "idle", session |-> 0]

\* A dict operation of thread who raises KeyError: the exception leaves
\* AuthService; on the server thread it ends the request with an error.
KeyError(who) ==
    [sessions EXCEPT ![who] = AtRest,
                     !.key_error = @ \cup {who},
                     !.result = IF who = "server" THEN "key_error" ELSE @]

\* The entries of _session_data under the key session
SessionData(session) == {d \in sessions.session_data : d[1] = session}

\* _clear_user_session(user_id) on thread who, which goes on at after: the
\* get, then the three del statements, each one step.
ClearUserSession(who, after) ==
    LET th == sessions[who]
        mine == IF who = "server" THEN {th.session} ELSE {}
    IN  \/ /\ th.pc = "clear"
           /\ sessions' =
                IF sessions.user_session = 0
                THEN [sessions EXCEPT ![who].pc = after]
                ELSE [sessions EXCEPT ![who] =
                        [pc |-> "del_user_session",
                         session |-> sessions.user_session]]
        \/ /\ th.pc = "del_user_session"
           /\ sessions' =
                IF sessions.user_session # 0
                THEN [sessions EXCEPT
                        !.user_session = 0,
                        !.cleared = IF who = "server"
                                    THEN @ \cup {sessions.user_session}
                                    ELSE @,
                        ![who].pc = "del_session_user"]
                ELSE KeyError(who)
        \/ /\ th.pc = "del_session_user"
           /\ sessions' =
                IF th.session \in sessions.session_user
                THEN [sessions EXCEPT
                        !.session_user = @ \ {th.session},
                        !.cleared = @ \cup mine,
                        ![who].pc = "del_session_data"]
                ELSE KeyError(who)
        \/ /\ th.pc = "del_session_data"
           /\ sessions' =
                IF SessionData(th.session) # {}
                THEN [sessions EXCEPT
                        !.session_data = @ \ SessionData(th.session),
                        !.cleared = @ \cup mine,
                        ![who] = [pc |-> after, session |-> 0]]
                ELSE KeyError(who)

\* create_auth_link is called: the PKCE pair is generated, then the old
\* session is cleaned up.  The k-th call generates verifier k and token k.
CreateAuthLink ==
    /\ sessions.bot.pc = "idle"
    /\ sessions.issued < MaxLinks
    /\ sessions' = [sessions EXCEPT !.issued = @ + 1, !.bot.pc = "clear"]
    /\ SessionsFrame

\* create_auth_link: self._clear_user_session(user_id)
CreateAuthLinkClear ==
    /\ ClearUserSession("bot", "new_user_session")
    /\ SessionsFrame

\* create_auth_link: the new token and the three assignments, then the link
\* with state=session is returned.
CreateAuthLinkSession ==
    /\ \/ /\ sessions.bot.pc = "new_user_session"
          /\ sessions' = [sessions EXCEPT
                !.user_session = sessions.issued,
                !.bot = [pc |-> "new_session_user",
                         session |-> sessions.issued]]
       \/ /\ sessions.bot.pc = "new_session_user"
          /\ sessions' = [sessions EXCEPT
                !.session_user = @ \cup {sessions.bot.session},
                !.bot.pc = "new_session_data"]
       \/ /\ sessions.bot.pc = "new_session_data"
          /\ sessions' = [sessions EXCEPT
                !.session_data =
                    @ \cup {<<sessions.bot.session, sessions.issued>>},
                !.links = @ \cup {sessions.bot.session},
                !.bot = AtRest]
    /\ SessionsFrame

\* _callback_route: state is the session of a link the user was given, or a
\* value that never was a session (0).  user_id = self._session_user[session]
\* inside the try: KeyError answers "invalid state".
CallbackRoute ==
    /\ sessions.server.pc = "idle"
    /\ \E state \in sessions.links \cup {0} :
          sessions' =
            IF state \in sessions.session_user
            THEN [sessions EXCEPT !.state = state, !.verifier = 0,
                                  !.result = "none", !.cleared = {},
                                  !.server.pc = "session_data"]
            ELSE [sessions EXCEPT !.state = state, !.verifier = 0,
                                  !.result = "invalid_state",
                                  !.cleared = {}]
    /\ SessionsFrame

\* _callback_route: session_data = self._session_data[session], outside
\* the try
CallbackSessionData ==
    /\ sessions.server.pc = "session_data"
    /\ sessions' =
         IF SessionData(sessions.state) # {}
         THEN [sessions EXCEPT
                 !.verifier =
                    (CHOOSE d \in SessionData(sessions.state) : TRUE)[2],
                 !.server.pc = "post"]
         ELSE KeyError("server")
    /\ SessionsFrame

\* _callback_route: the code is exchanged with session_data.code_verifier;
\* an HTTPError answers the error page and leaves the session alone.
CallbackExchange ==
    /\ sessions.server.pc = "post"
    /\ \/ sessions' = [sessions EXCEPT !.server.pc = "clear"]
       \/ sessions' = [sessions EXCEPT !.result = "auth_error",
                                       !.server = AtRest]
    /\ SessionsFrame

\* _callback_route: self._clear_user_session(user_id)
CallbackClear ==
    /\ ClearUserSession("server", "put")
    /\ SessionsFrame

\* _callback_route: the record is put into the queue (AuthServerPut is the
\* queue's side of it) and the success page is answered.
CallbackPut ==
    /\ sessions.server.pc = "put"
    /\ sessions' = [sessions EXCEPT !.result = "completed",
                                    !.server = AtRest]
    /\ SessionsFrame

SessionNext ==
    \/ CreateAuthLink
    \/ CreateAuthLinkClear
    \/ CreateAuthLinkSession
    \/ CallbackRoute
    \/ CallbackSessionData
    \/ CallbackExchange
    \/ CallbackClear
    \/ CallbackPut

SessionSpec == Init /\ [][SessionNext]_vars

(***************************************************************************)
(* Properties.                                                             *)
(***************************************************************************)

\* C1: after any sequence of turns no profile id is both in the user's
\* favorite list and in the user's blacklist.
C1_FavoriteBlacklistDisjoint ==
    Range(favorites) \cap Range(blacklist) = {}

\* A turn in which "add to blacklist" in the favorite list moved the shown
\* profile from the favorite list to the blacklist.
C1_Witness ==
    /\ turn.command = "respond"
    /\ turn.before.state = FAVORITE_LIST
    /\ turn.text = Tok("add_blacklist")
    /\ turn.before.progress.last_favorite_id \in Range(turn.before.favorites)
    /\ turn.before.progress.last_favorite_id \in Range(blacklist)
    /\ favorites # <<>>

\* Position i of the turn's responses is the first response after
\* StateManager.start has stored its update.
StartedBefore(i) ==
    responses[i].nstart > (IF i = 1 THEN 0 ELSE responses[i - 1].nstart)

\* The stored user state when the response at position i - 1 was yielded
\* (before the turn, for the first response).
StateBefore(i) ==
    IF i = 1 THEN turn.before.state ELSE responses[i - 1].state

\* C2: when StateManager.start(s) has stored its update, the user's state
\* is s and Progress.last_state is the state the user had immediately before
\* the call: the first response after every start call sees both.
C2_StartRecordsStates ==
    \A i \in 1..Len(responses) :
        StartedBefore(i) =>
            /\ responses[i].state = responses[i].entered
            /\ responses[i].last_state = StateBefore(i)

\* A start of Searching from the main menu, seen by its first response.
C2_Witness ==
    \E i \in 1..Len(responses) :
        /\ StartedBefore(i)
        /\ StateBefore(i) = MAIN_MENU
        /\ responses[i].state = SEARCHING
        /\ responses[i].last_state = MAIN_MENU

\* C3: every response yielded by the start handler of the state that
\* StateManager.start was last called with is yielded when that state is
\* already the stored user state (abandoning the turn after such a response
\* leaves the user in the new state).
C3_PersistedBeforeFirstResponse ==
    \A i \in 1..Len(responses) :
        (responses[i].by = responses[i].entered
            /\ responses[i].meth \in {"start", "show"})
        => responses[i].state = responses[i].by

\* The first response of a start of the favorite list from the main menu.
C3_Witness ==
    \E i \in 1..Len(responses) :
        /\ StartedBefore(i)
        /\ StateBefore(i) = MAIN_MENU
        /\ responses[i].by = FAVORITE_LIST
        /\ responses[i].entered = FAVORITE_LIST
        /\ responses[i].type = "keyboard"

\* The texts that are no menu token registered for `state`
UnregisteredTexts(state) ==
    {text \in Texts : ~(text.token /\ text.val \in MenuOptions(state))}

\* What a run of the start handler of `state` from Store content st can
\* come to: its responses, its Store effects and its exception.
StartRuns(st, state) ==
    {[log |-> r.log, st |-> r.st, exc |-> r.exc]
       : r \in StateStart(Begin(st), state)}

\* The respond call r got as far as its first response (the keyboard); it
\* then answers "unknown command" with allow_squash = False, and the rest of
\* it (responses, Store effects, exception) is one of `runs`.
UnknownThenStart(r, runs) ==
    r.log # <<>> =>
        /\ Len(r.log) >= 2
        /\ r.log[2].type = "unknown_command"
        /\ ~r.log[2].squash
        /\ [log |-> SubSeq(r.log, 3, Len(r.log)), st |-> r.st, exc |-> r.exc]
              \in runs

\* Every respond call the user can make now with a text that is no menu
\* token registered for the user's state is "unknown command" followed by a
\* run of the state's start handler.
UnknownCommandReplaysStart ==
    LET runs == StartRuns(Store, user_state)
    IN  \A text \in UnregisteredTexts(user_state) :
            \A r \in ManagerRespond(Begin(Store), text) :
                UnknownThenStart(r, runs)

C5_MenuReachesEveryList ==
    /\ (Idle /\ user_state = MAIN_MENU) =>
          \A target \in {SEARCHING, FAVORITE_LIST, BLACKLIST} :
              \E t \in MenuOptions(MAIN_MENU) :
                  \E r \in ManagerRespond(Begin(Store), Tok(t)) :
                      \E i \in 1..Len(r.log) : r.log[i].state = target
    /\ (Idle /\ user_state \in {SEARCHING, FAVORITE_LIST, BLACKLIST}) =>
          \A r \in ManagerRespond(Begin(Store), Tok("go_back")) :
              r.exc = "none" => r.st.state = MAIN_MENU

\* The last turn was "Finished" sent in the Auth state, it got as far as
\* get_user_token and ended without an exception.
AuthFinishedTurn ==
    /\ turn.command = "respond"
    /\ turn.before.state = AUTH
    /\ turn.text = Tok("auth_finished")
    /\ turn.token # "unset"
    /\ turn.exc = "none"

\* The first StateManager.start of the turn entered `state`.
FirstStartEnters(state) ==
    \E i \in 1..Len(responses) :
        /\ StartedBefore(i)
        /\ responses[i].nstart = 1
        /\ responses[i].entered = state
        /\ responses[i].state = state

C7_TokenErrorRoutesToAuth ==
    ("token" \in turn.errs /\ turn.exc = "none") =>
        /\ user_state = AUTH
        /\ progress.last_state # AUTH
        /\ \A i \in 1..Len(responses) : responses[i].type # "search_error"

\* C8 (as stated): "add to favorite" in Searching while last_found_id still
\* has its initial value (no search result was recorded) answers "add to
\* favorite failed" and changes neither list.
C8_AddFavoriteWithoutLastFound ==
    (/\ turn.command = "respond"
     /\ turn.before.state = SEARCHING
     /\ turn.text = Tok("add_favorite")
     /\ turn.before.progress.last_found_id = DefaultProgress.last_found_id
     /\ responses # <<>>)
    => /\ \E i \in 1..Len(responses) :
              responses[i].type = "add_to_favorite_failed"
       /\ favorites = turn.before.favorites
       /\ blacklist = turn.before.blacklist

\* C9 (as stated): a search attempt of Searching.start made while the cache
\* holds no unexpired entry calls the provider's search.
C9_SearchWithoutCacheCallsProvider ==
    (/\ \E i \in 1..Len(responses) :
            responses[i].type \in {"search_result", "search_failed"}
     /\ \A user_id \in CacheUsers :
            GetCacheRecord(search_cache, user_id, now).record = NoRecord)
    => turn.nsearch > 0

\* C10: _get_cache_record never returns an entry at or after its
\* expire_time: it answers None and removes the entry; an entry whose
\* expire_time lies in the future is returned as it is and stays cached.
C10_ExpiredNeverReturned ==
    cache_result.before # NoRecord =>
        IF cache_result.at >= cache_result.before.expire_time
        THEN cache_result.record = NoRecord /\ ~cache_result.cached
        ELSE cache_result.record = cache_result.before /\ cache_result.cached

\* An access exactly at the expire_time of the user's entry.
C10_Witness ==
    /\ cache_result.before # NoRecord
    /\ cache_result.at = cache_result.before.expire_time
    /\ cache_result.record = NoRecord
    /\ cache_result.calls = 2

(***************************************************************************)
(* render_messages                                                         *)
(***************************************************************************)
NonSquashPositions ==
    {i \in 1..Len(render.responses) : ~render.responses[i].allow_squash}

\* C11 (as stated): a stream of N responses of which exactly one, the k-th
\* counted from 0, does not allow squashing is rendered to 3 messages when
\* 1 <= k < N-1, to 2 when k = 0 or k = N-1 and N > 1, and to 1 when N = 1,
\* whatever kinds the other responses have.
C11_OneStandaloneMessageCount ==
    (render.done /\ Cardinality(NonSquashPositions) = 1) =>
        LET N == Len(render.responses)
            k == CHOOSE i \in NonSquashPositions : TRUE
        IN  Len(render.messages) =
                IF N = 1 THEN 1 ELSE IF k \in {1, N} THEN 2 ELSE 3

\* C12 (as stated): when a response that does not allow squashing has been
\* handled, it is the last message given, alone with its own content, and
\* the accumulator (keyboard, paragraphs, media) is empty, so nothing
\* gathered before it can be delivered after it.
C12_StandaloneClearsAccumulator ==
    (render.pos >= 1 /\ ~render.responses[render.pos].allow_squash) =>
        /\ render.messages # <<>>
        /\ render.messages[Len(render.messages)]
              = RenderResponse(render.responses[render.pos])
        /\ render.keyboard = None
        /\ render.paragraphs = <<>>
        /\ render.media = <<>>

RECURSIVE FlatMedia(_)
FlatMedia(items) ==
    IF items = <<>> THEN <<>> ELSE Head(items).media \o FlatMedia(Tail(items))

RECURSIVE FlatText(_)
FlatText(items) ==
    IF items = <<>> THEN <<>>
    ELSE (IF Head(items).text # "" THEN <<Head(items).text>> ELSE <<>>)
            \o FlatText(Tail(items))

\* C13 (as stated): when the stream has ended, the paragraphs of the
\* messages are those of the responses, once each and in order, likewise
\* the media items, and a keyboard that was carried is delivered even when
\* no text came with it.
C13_EndOfStreamFlushesEverything ==
    render.done =>
        /\ Join(FlatText(render.messages)) = Join(FlatText(render.responses))
        /\ FlatMedia(render.messages) = FlatMedia(render.responses)
        /\ (\E i \in 1..Len(render.responses) :
                render.responses[i].keyboard # None)
              => \E m \in 1..Len(render.messages) :
                    render.messages[m].keyboard # None

\* The squashable responses among stream[first..last]
Squashed(first, last) ==
    SelectSeq(SubSeq(render.responses, first, last), LAMBDA x : x.allow_squash)

LastKeyboard(items) ==
    LET ks == {i \in 1..Len(items) : items[i].keyboard # None}
    IN  IF ks = {} THEN None
        ELSE items[CHOOSE i \in ks : \A j \in ks : j <= i].keyboard

\* C14: a message made by squash_message has the texts of the squashable
\* responses consumed since the accumulator was last cleared, joined in
\* order by the paragraph separator, the keyboard of the last of them that
\* carried one, and their media concatenated in order.
C14_SquashedMessageContent ==
    \A m \in 1..Len(render.messages) :
        render.spans[m].squashed =>
            LET items == Squashed(render.spans[m].first, render.spans[m].last)
            IN  render.messages[m] =
                    [text |-> Join(FlatText(items)),
                     keyboard |-> LastKeyboard(items),
                     media |-> FlatMedia(items)]

\* Two keyboards and two texts end up in one squashed message.
C14_Witness ==
    /\ render.done
    /\ \E m \in 1..Len(render.messages) :
          /\ render.spans[m].squashed
          /\ LET items == Squashed(render.spans[m].first, render.spans[m].last)
             IN  /\ Cardinality({i \in 1..Len(items) : items[i].keyboard # None}) = 2
                 /\ Len(FlatText(items)) = 2
                 /\ items[1].keyboard # None

(***************************************************************************)
(* SearchingState._is_profile_relevant                                     *)
(***************************************************************************)
\* What the requester asks of a candidate.
SatisfiesRequester(profile, user) ==
    /\ profile.online
    /\ profile.city_id = user.city_id
    /\ \/ user.sex = MALE /\ profile.sex = FEMALE
       \/ user.sex = FEMALE /\ profile.sex = MALE
    /\ profile.age # None =>
          /\ profile.age >= user.age - SEARCH_AGE_MAX_GAP
          /\ profile.age <= user.age + SEARCH_AGE_MAX_GAP

\* C19: the search loop stops at a fetched profile, which is then the one
\* displayed, exactly when the profile is online, in the requester's city,
\* of the opposite sex and, if its age is known, at most one year from the
\* requester's age; any other fetched profile is skipped.
C19_DisplayedCandidateSatisfiesQuery ==
    (candidate.tested /\ SearchQueryError(candidate.user) = "ok") =>
        (candidate.found <=> SatisfiesRequester(candidate.profile, candidate.user))

\* A candidate one year older than the requester is accepted.
C19_Witness ==
    /\ candidate.tested
    /\ candidate.found
    /\ candidate.user.age = 30
    /\ candidate.profile.age = 31

(***************************************************************************)
(* SearchingState.start                                                    *)
(***************************************************************************)
HasResponse(type) == \E i \in 1..Len(responses) : responses[i].type = type

\* The response after the i-th is the first one of MainMenu's start, called
\* by StateManager.start_main_menu right after the i-th was yielded; when
\* there is none, the Store refused the transaction of the state update.
MainMenuEnteredAfter(i) ==
    IF i < Len(responses)
    THEN /\ responses[i + 1].nstart = responses[i].nstart + 1
         /\ responses[i + 1].entered = MAIN_MENU
         /\ responses[i + 1].state = MAIN_MENU
    ELSE turn.exc = "model"

SearchResults == {i \in 1..Len(responses) : responses[i].type = "search_result"}

\* C16 (as stated): the candidate displayed in a turn is one of the ids the
\* two provider search passes of the turn returned and the cache now holds
\* (or of a live cached list), and exactly one candidate is displayed.
C16_CandidateFromSearchPasses ==
    \A i \in SearchResults :
        /\ turn.nsearch \in {0, 2}
        /\ \E user_id \in DOMAIN search_cache :
              responses[i].pid \in Range(search_cache[user_id].profiles)
        /\ Cardinality(SearchResults) = 1

\* C17: a candidate displayed as a search result is not in the user's
\* blacklist, neither as it was when the turn began nor as it is after it.
C17_DisplayedNotBlacklisted ==
    \A i \in SearchResults :
        /\ responses[i].pid \notin Range(turn.before.blacklist)
        /\ responses[i].pid \notin Range(blacklist)

\* A search in which a profile blacklisted earlier is left out.
C17_Witness ==
    /\ turn.before.blacklist # <<>>
    /\ \E i \in SearchResults :
          responses[i].pid \notin Range(turn.before.blacklist)

\* Searching.start ran in the turn, got a query and ended without a
\* provider error and without an exception.
SearchCompleted ==
    /\ \E i \in 1..Len(responses) :
          /\ responses[i].type = "keyboard"
          /\ responses[i].by = SEARCHING
          /\ responses[i].meth = "start"
    /\ \A i \in 1..Len(responses) : responses[i].type \notin SearchQueryErrors
    /\ ~HasResponse("search_error")
    /\ turn.exc = "none"

C20_LastFoundIsDisplayed ==
    \A i \in SearchResults : progress.last_found_id = responses[i].pid

(***************************************************************************)
(* State.attach_profile_photos inside SearchingState._search               *)
(***************************************************************************)
PhotoFailures ==
    {i \in 1..Len(responses) :
        responses[i].type = "photo_failed" /\ responses[i].by = SEARCHING}

\* C21 (as stated): when the photos of the displayed candidate cannot be
\* fetched, "photos unavailable" directly follows the "search result" of
\* that candidate and ends the turn, the user is in Searching,
\* Progress.last_found_id is the candidate, and the turn shows no "search
\* error" and never enters MainMenu after the result.
C21_PhotoFailureKeepsResult ==
    \A i \in PhotoFailures :
        /\ i > 1
        /\ responses[i - 1].type = "search_result"
        /\ responses[i - 1].pid = responses[i].pid
        /\ i = Len(responses)
        /\ turn.exc = "none"
        /\ user_state = SEARCHING
        /\ ~HasResponse("search_error")
        /\ progress.last_found_id = responses[i].pid

(***************************************************************************)
(* Provider errors of get_user_profile in Searching, FavoriteList and      *)
(* Blacklist                                                               *)
(***************************************************************************)
\* The last turn as a handler run
LastRun ==
    [log |-> responses, exc |-> turn.exc, st |-> Store,
     fetch_failed |-> turn.fetch_failed]

FetchFailureResponses == {"search_error", "favorite_list_failed", "blacklist_failed"}

\* In run r the response after the i-th is the first one of MainMenu's
\* start, called by StateManager.start_main_menu; when there is none, the
\* Store refused the transaction of the state update.
RunEntersMainMenuAfter(r, i) ==
    IF i < Len(r.log)
    THEN /\ r.log[i + 1].nstart = r.log[i].nstart + 1
         /\ r.log[i + 1].entered = MAIN_MENU
         /\ r.log[i + 1].state = MAIN_MENU
    ELSE r.exc = "model"

\* No provider error leaves the handler; when a get_user_profile call
\* failed the run shows the failure response of the state, goes on with
\* MainMenu's start and, unless the Store then fails, ends in MainMenu.
ProviderErrorHandled(r) ==
    /\ ~IsProfileProviderError(r)
    /\ r.fetch_failed =>
          /\ r.exc \in {"none", "model"}
          /\ r.exc = "none" => r.st.state = MAIN_MENU
          /\ \E i \in 1..Len(r.log) :
                /\ r.log[i].type \in FetchFailureResponses
                /\ r.log[i].type = "search_error" <=> r.log[i].by = SEARCHING
                /\ r.log[i].type = "favorite_list_failed" <=> r.log[i].by = FAVORITE_LIST
                /\ RunEntersMainMenuAfter(r, i)

ShowIndexes == (0 - MaxListed - 1)..(2 * MaxListed)

\* Run r displays with `type` the record at position index of list (from 0)
\* and stores index and record id in the two cursor fields.
ShowsRecord(r, type, list, index, last_index, last_id) ==
    \A i \in 1..Len(r.log) :
        r.log[i].type = type =>
            /\ r.log[i].total = Len(list)
            /\ r.log[i].index = index + 1
            /\ r.log[i].pid = list[index + 1]
            /\ last_index = index
            /\ last_id = list[index + 1]

Displays(r, type) == \E i \in 1..Len(r.log) : r.log[i].type = type

\* C23: for every index i, _show(i) and _show(i mod count) of FavoriteList
\* have the same outcomes, and so have those of Blacklist: the record at
\* position i mod count is displayed and i mod count is stored in Progress;
\* with a Store that does not fail the record is displayed.  In the turns
\* of a user who browses the favorite list "Prev" and "Next" display the
\* record one position before or after the stored cursor, modulo the count.
C23_PaginationModuloCount ==
    /\ (Idle /\ favorites # <<>>) =>
          \A i \in ShowIndexes :
              LET n == i % Len(favorites)
                  runs == FavoriteListShow(Begin(Store), i)
              IN  /\ runs = FavoriteListShow(Begin(Store), n)
                  /\ \E r \in runs : Displays(r, "favorite_result")
                  /\ \A r \in runs :
                        ShowsRecord(r, "favorite_result", favorites, n,
                                    r.st.progress.last_favorite_index,
                                    r.st.progress.last_favorite_id)
    /\ (Idle /\ blacklist # <<>>) =>
          \A i \in ShowIndexes :
              LET n == i % Len(blacklist)
                  runs == BlacklistShow(Begin(Store), i)
              IN  /\ runs = BlacklistShow(Begin(Store), n)
                  /\ \E r \in runs : Displays(r, "blacklist_result")
                  /\ \A r \in runs :
                        ShowsRecord(r, "blacklist_result", blacklist, n,
                                    r.st.progress.last_blacklist_index,
                                    r.st.progress.last_blacklist_id)
    /\ (/\ turn.command = "respond"
        /\ turn.before.state = FAVORITE_LIST
        /\ turn.text \in {Tok("prev"), Tok("next")}
        /\ favorites # <<>>) =>
          LET step == IF turn.text = Tok("prev") THEN -1 ELSE 1
              n == (turn.before.progress.last_favorite_index + step)
                       % Len(favorites)
          IN  ShowsRecord(LastRun, "favorite_result", favorites, n,
                          progress.last_favorite_index,
                          progress.last_favorite_id)

\* "Prev" at index 0 of a list of two or more displays the last record.
C23_Witness ==
    /\ turn.command = "respond"
    /\ turn.before.state = FAVORITE_LIST
    /\ turn.text = Tok("prev")
    /\ turn.before.progress.last_favorite_index = 0
    /\ Len(favorites) >= 2
    /\ progress.last_favorite_index = Len(favorites) - 1
    /\ \E i \in 1..Len(responses) :
          /\ responses[i].type = "favorite_result"
          /\ responses[i].index = Len(favorites)
          /\ responses[i].pid = favorites[Len(favorites)]

(***************************************************************************)
(* FavoriteListState._add_blacklist, BlacklistState._add_favorite          *)
(***************************************************************************)
\* Run r re-displays with `type` the list `shown` (as it is after the move)
\* at position `index` normalised to its count; nothing is displayed when
\* the list has become empty.
Redisplays(r, type, shown, index) ==
    /\ shown = <<>> => ~Displays(r, type)
    /\ shown # <<>> =>
          \A i \in 1..Len(r.log) :
              r.log[i].type = type =>
                  /\ r.log[i].index = (index % Len(shown)) + 1
                  /\ r.log[i].pid = shown[(index % Len(shown)) + 1]

\* The run moved the record: no "add failed" response and no exception
Moved(r) ==
    /\ r.exc = "none"
    /\ ~Displays(r, "add_to_blacklist_failed")
    /\ ~Displays(r, "add_to_favorite_failed")

\* The Store of a user who looks at position j of the blacklist
BrowsingBlacklist(j) ==
    [Store EXCEPT !.state = BLACKLIST,
                  !.progress.last_blacklist_index = j,
                  !.progress.last_blacklist_id = blacklist[j + 1]]

\* C24 (as stated): "add to blacklist" in FavoriteList takes the shown
\* record out of the favorites, appends it to the blacklist and displays
\* the favorites again at the position the user was at in the favorites
\* (modulo the new count); "add to favorite" in Blacklist does the same
\* with the lists exchanged.
C24_MoveRedisplaysSameIndex ==
    /\ (/\ turn.command = "respond"
        /\ turn.before.state = FAVORITE_LIST
        /\ turn.text = Tok("add_blacklist")
        /\ Moved(LastRun)) =>
          LET pid == turn.before.progress.last_favorite_id
          IN  /\ favorites = Without(turn.before.favorites, pid)
              /\ blacklist = Append(turn.before.blacklist, pid)
              /\ Redisplays(LastRun, "favorite_result", favorites,
                            turn.before.progress.last_favorite_index)
    /\ Idle =>
          \A j \in 0..(Len(blacklist) - 1) :
              \A r \in BlacklistRespond(Begin(BrowsingBlacklist(j)),
                                        Tok("add_favorite")) :
                  Moved(r) =>
                      /\ r.st.blacklist = Without(blacklist, blacklist[j + 1])
                      /\ r.st.favorites = Append(favorites, blacklist[j + 1])
                      /\ Redisplays(r, "blacklist_result", r.st.blacklist, j)

(***************************************************************************)
(* Controller.start_message_loop                                           *)
(***************************************************************************)
\* C25: a turn begins only in handle_message of the loop's thread, when no
\* turn is in flight and every response of the previous turn has been sent;
\* while a turn is in flight the user's Store rows are left alone; and the
\* auth data changes only in process_auth_queue, between two turns, however
\* early the authorization server has put the record into the queue.
C25_TurnsDoNotInterleave ==
    [][/\ (turn' # turn /\ turn'.command # "none") =>
              (Idle /\ responses = <<>> /\ loop.pc = "handle")
       /\ ~Idle => Store' = Store
       /\ auth_data' # auth_data =>
              (Idle /\ Idle' /\ loop.pc = "auth" /\ loop.auth_queue # <<>>)]_vars

\* A turn is in flight while an auth record and the user's next message
\* are waiting.
C25_Witness ==
    /\ ~Idle
    /\ responses # <<>>
    /\ loop.auth_queue # <<>>
    /\ loop.events > 0
    /\ ~auth_data

(***************************************************************************)
(* The length of a turn                                                    *)
(***************************************************************************)
\* How many responses of the turn have one of the types
CountOf(types) ==
    Cardinality({i \in 1..Len(responses) : responses[i].type \in types})

\* How often the start handler of `state` has run in the turn: each run
\* begins with the state's keyboard (NewUser's with the greeting)
StartsOf(state) ==
    Cardinality({i \in 1..Len(responses) :
        /\ responses[i].by = state
        /\ responses[i].meth = "start"
        /\ responses[i].type \in {"keyboard", "greet_new_user"}})

\* C26: whatever the state, the text and the outcomes of the provider and
\* Store calls, a turn yields at most seven responses: respond runs once,
\* the start handler of each state runs at most once, StateManager.start is
\* called at most three times (the third time when the Store fails inside
\* start_main_menu called by _show), and a turn makes at most one search
\* and reports at most one failure, so that a failed provider call is not
\* tried again.
C26_TurnIsBounded ==
    /\ Len(responses) <= 7
    /\ CountOf({"unknown_command"}) <= 1
    /\ Cardinality({i \in 1..Len(responses) :
           responses[i].meth = "respond" /\ responses[i].type = "keyboard"}) <= 1
    /\ \A state \in {NEW_USER, MAIN_MENU, SEARCHING, FAVORITE_LIST, BLACKLIST} :
           StartsOf(state) <= 1
    /\ \A i \in 1..Len(responses) : responses[i].nstart <= 3
    /\ CountOf({"search_result", "search_failed", "search_error"}) <= 1
    /\ CountOf(FetchFailureResponses) <= 1
    /\ CountOf({"photo_failed", "attach_media"}) <= 1
    /\ turn.fetch_failed => CountOf({"search_result", "favorite_result"}) = 0

\* An unknown text in Searching: the start handler is replayed, its search
\* finds no candidate, and the turn ends with the main menu.
C26_Witness ==
    /\ turn.before.state = SEARCHING
    /\ CountOf({"unknown_command"}) = 1
    /\ CountOf({"search_failed"}) = 1
    /\ StartsOf(SEARCHING) = 1
    /\ StartsOf(MAIN_MENU) = 1
    /\ user_state = MAIN_MENU
    /\ Len(responses) = 6

(***************************************************************************)
(* StateManager.get_state for a state without a handler                    *)
(***************************************************************************)
\* C27 (as stated): for a UserState value that has no registered handler,
\* respond and start raise without yielding a response, and the Store is
\* left as it was: no other state is chosen and the user is not recorded
\* in the unregistered state.
C27_UnregisteredStateIsFatal ==
    Idle =>
        \A state \in UserStates \ RegisteredStates :
            /\ \A text \in Texts :
                  LET st == [Store EXCEPT !.state = state]
                  IN  \A r \in ManagerRespond(Begin(st), text) :
                          /\ r.exc = "not_implemented"
                          /\ r.log = <<>>
                          /\ r.st = st
            /\ \A r \in StartState(Begin(Store), state) :
                  /\ r.exc # "none"
                  /\ r.log = <<>>
                  /\ r.st.state # state
                  /\ r.st.state = user_state

(***************************************************************************)
(* Who changes User.state                                                  *)
(***************************************************************************)
\* The state stored before the i-th response was yielded, and the number of
\* StateManager.start calls made by then
StateUntil(i) == IF i = 1 THEN turn.before.state ELSE responses[i - 1].state
StartsUntil(i) == IF i = 1 THEN 0 ELSE responses[i - 1].nstart

\* C28: receiving a message (the refresh of the user's profile fields)
\* keeps the stored state: a message that could not be received changes
\* nothing, and respond is answered by the handler of the state stored
\* before the message; within a turn the stored state changes only where
\* StateManager.start was called, to the state it was called with; and an
\* "unknown command" is followed by the state's own start with the stored
\* state unchanged.
C28_StateChangedOnlyByStateManager ==
    /\ turn.command = "receive" => (Store = turn.before /\ responses = <<>>)
    /\ (turn.command = "respond" /\ responses # <<>>) =>
          /\ responses[1].state = turn.before.state
          /\ responses[1].by = turn.before.state
          /\ responses[1].nstart = 0
    /\ \A i \in 1..Len(responses) :
          /\ responses[i].state # StateUntil(i) =>
                /\ responses[i].nstart > StartsUntil(i)
                /\ responses[i].entered = responses[i].state
          /\ responses[i].type = "unknown_command" =>
                /\ responses[i].state = turn.before.state
                /\ i < Len(responses) =>
                      /\ responses[i + 1].state = turn.before.state
                      /\ responses[i + 1].nstart = 0
                      /\ responses[i + 1].by = turn.before.state
                      /\ responses[i + 1].meth = "start"
    /\ turn.command # "none" =>
          /\ user_state # turn.before.state => turn.entered = user_state
          /\ turn.entered = "none" => user_state = turn.before.state

\* An unknown text in Searching: start is replayed, a candidate is shown,
\* StateManager is not involved and the user is still in Searching.
C28_Witness ==
    /\ turn.command = "respond"
    /\ turn.before.state = SEARCHING
    /\ turn.before # NoStore
    /\ HasResponse("unknown_command")
    /\ HasResponse("search_result")
    /\ turn.entered = "none"
    /\ user_state = SEARCHING

(***************************************************************************)
(* A Store failure inside "add to favorite" / "add to blacklist"           *)
(***************************************************************************)
\* The last message was an accepted "add" button of Searching, FavoriteList
\* or Blacklist, and its keyboard response was yielded (respond's own
\* opening transaction succeeded).
AddTurn ==
    /\ turn.command = "respond"
    /\ turn.text.token
    /\ responses # <<>>
    /\ \/ turn.before.state = SEARCHING
          /\ turn.text.val \in {"add_favorite", "add_blacklist"}
       \/ turn.before.state = FAVORITE_LIST /\ turn.text.val = "add_blacklist"
       \/ turn.before.state = BLACKLIST /\ turn.text.val = "add_favorite"

AddFailedResponse ==
    IF turn.text.val = "add_favorite"
    THEN "add_to_favorite_failed" ELSE "add_to_blacklist_failed"

\* C29: when the Store fails inside an add-to-favorite or add-to-blacklist
\* action (a ModelError of one of its calls, or an error of its commit), the
\* "add failed" response is yielded and the Store is what it was before the
\* message: no row added, none deleted, state and Progress unchanged.
C29_StoreFailureYieldsAddFailed ==
    (AddTurn /\ (turn.exc = "sqlalchemy" \/ HasResponse(AddFailedResponse))) =>
        /\ HasResponse(AddFailedResponse)
        /\ Store = turn.before

(***************************************************************************)
(* Keyboards, MENU_OPTIONS and the branches of respond                     *)
(***************************************************************************)
\* The states whose respond tests is_command_accepted
MenuStates == {MAIN_MENU, SEARCHING, FAVORITE_LIST, BLACKLIST, AUTH}

\* respond got a token of the state's MENU_OPTIONS and ran to its end
AcceptedTurn ==
    /\ turn.command = "respond"
    /\ turn.before.state \in MenuStates
    /\ IsCommandAccepted(turn.text, AcceptedTokens(turn.before.state))
    /\ turn.exc = "none"

\* C30: in every state the accepted tokens are the tokens of the keyboard's
\* buttons, and respond handles every accepted token: the turn is not
\* answered with "unknown command", and it does something besides showing
\* the keyboard again.
C30_AcceptedTokensAreHandled ==
    /\ \A state \in MenuStates : AcceptedTokens(state) = KeyboardTokens(state)
    /\ AcceptedTurn =>
          /\ ~HasResponse("unknown_command")
          /\ Len(responses) >= 2 \/ Store # turn.before

(***************************************************************************)
(* How a turn that entered Searching ends                                  *)
(***************************************************************************)
\* The turn ran SearchingState.start (from MainMenu's Search or from Next)
\* up to its keyboard response.
SearchEntered ==
    /\ turn.command = "respond"
    /\ turn.text.token
    /\ \/ turn.before.state = MAIN_MENU /\ turn.text.val = "search"
       \/ turn.before.state = SEARCHING /\ turn.text.val = "next"
    /\ \E i \in 1..Len(responses) :
          /\ responses[i].type = "keyboard"
          /\ responses[i].by = SEARCHING
          /\ responses[i].meth = "start"

SearchFailureResponses == SearchQueryErrors \cup {"search_failed", "search_error"}

\* C31 (as stated): a turn that entered Searching ends in exactly one of
\* two ways: a search result was emitted and the stored state is Searching,
\* or a failure response was emitted and the stored state is MainMenu.
C31_SearchEndsWithResultOrMainMenu ==
    SearchEntered =>
        \/ /\ SearchResults # {}
           /\ user_state = SEARCHING
           /\ \A i \in 1..Len(responses) :
                 responses[i].type \notin SearchFailureResponses
        \/ /\ SearchResults = {}
           /\ user_state = MAIN_MENU
           /\ \E i \in 1..Len(responses) :
                 responses[i].type \in SearchFailureResponses

(***************************************************************************)
(* The graph of user states                                                *)
(***************************************************************************)
ListStates == {SEARCHING, FAVORITE_LIST, BLACKLIST}

\* An edge of the state graph; `last` is Progress.last_state as the turn
\* found it, and `detour` says that the turn is the side channel into Auth.
Edge(from, to, last, detour) ==
    \/ from = to
    \/ from = NEW_USER /\ to = MAIN_MENU
    \/ from \in ListStates /\ to = MAIN_MENU
    \/ from = MAIN_MENU /\ to \in ListStates
    \/ from = AUTH /\ to \in {MAIN_MENU, last}
    \/ detour /\ from # AUTH /\ to = AUTH

\* The state stored when the last response of the turn was yielded
StateAtLastResponse ==
    IF responses = <<>> THEN turn.before.state
    ELSE responses[Len(responses)].state

\* C32: every change of the stored state inside a turn follows an edge of
\* the graph (NewUser to MainMenu; Searching, FavoriteList, Blacklist to
\* MainMenu; MainMenu to one of these three; Auth to MainMenu or to
\* Progress.last_state), and no turn begins in one of Searching,
\* FavoriteList, Blacklist and ends in another of them.
C32_StateFollowsGraph ==
    turn.command # "none" =>
        LET last == turn.before.progress.last_state
            detour == turn.command = "detour"
        IN  /\ \A i \in 1..Len(responses) :
                  Edge(StateUntil(i), responses[i].state, last, detour)
            /\ Edge(StateAtLastResponse, user_state, last, detour)
            /\ (turn.before.state \in ListStates /\ user_state \in ListStates)
                  => user_state = turn.before.state

\* The Favorite button of the main menu: the user is in FavoriteList with a
\* record shown; and a Search that failed: MainMenu, Searching, MainMenu.
C32_Witness ==
    /\ turn.command = "respond"
    /\ turn.before.state = MAIN_MENU
    /\ \/ user_state = FAVORITE_LIST /\ HasResponse("favorite_result")
       \/ /\ user_state = MAIN_MENU
          /\ HasResponse("search_failed")
          /\ \E i \in 1..Len(responses) : responses[i].state = SEARCHING

(***************************************************************************)
(* StateManager.get_state                                                  *)
(***************************************************************************)
\* C33: the stored state and Progress.last_state (the state an
\* authorization would resume) are always states StateManager has a handler
\* for, and no turn ends in get_state's NotImplementedError.
C33_StoredStateIsRegistered ==
    /\ user_state \in RegisteredStates
    /\ progress.last_state \in RegisteredStates
    /\ turn.exc # "not_implemented"
    /\ \A i \in 1..Len(responses) :
          /\ responses[i].state \in RegisteredStates
          /\ responses[i].last_state \in RegisteredStates
          /\ responses[i].by \in RegisteredStates

\* respond is dispatched on a state the bot wrote two turns ago: the user
\* went from the main menu to the favorite list and presses a button there.
C33_Witness ==
    /\ turn.command = "respond"
    /\ turn.before.state = FAVORITE_LIST
    /\ turn.before.progress.last_state = MAIN_MENU
    /\ responses # <<>>
    /\ responses[1].by = FAVORITE_LIST
    /\ turn.exc = "none"

(***************************************************************************)
(* Every message is answered                                               *)
(***************************************************************************)
\* A response that renders to a text: every response except a keyboard and
\* attached media.  render_messages yields a message only for a response
\* that is not squashable or when a text paragraph has been collected.
HasTextResponse ==
    \E i \in 1..Len(responses) :
        responses[i].type \notin {"keyboard", "attach_media"}

\* C34 (as stated, for the turns whose handler ran to its end): the
\* response stream of a handled message holds at least one response with a
\* text.
C34_EveryMessageIsAnswered ==
    (turn.command \in {"respond", "start"} /\ turn.exc = "none")
        => HasTextResponse

(***************************************************************************)
(* The pagination cursor of a user who is in a list state                  *)
(***************************************************************************)
\* C35 (as stated): while the stored state is FavoriteList the favorite
\* list is not empty, Progress.last_favorite_index is an index of it and
\* Progress.last_favorite_id is the profile at that index; likewise for
\* Blacklist and the blacklist cursor.
C35_CursorPointsAtShownRecord ==
    /\ user_state = FAVORITE_LIST =>
          /\ favorites # <<>>
          /\ progress.last_favorite_index \in 0..(GetFavoriteCount(Store) - 1)
          /\ GetFavoriteIndex(Store, progress.last_favorite_index)
                = progress.last_favorite_id
    /\ user_state = BLACKLIST =>
          /\ blacklist # <<>>
          /\ progress.last_blacklist_index \in 0..(GetBlacklistCount(Store) - 1)
          /\ GetBlacklistIndex(Store, progress.last_blacklist_index)
                = progress.last_blacklist_id

(***************************************************************************)
(* A list state whose list is empty                                        *)
(***************************************************************************)
\* The turn entered FavoriteList while the list was empty, or deleted or
\* moved the only record of the list the user was browsing.
ListBecameEmpty ==
    /\ turn.command = "respond"
    /\ \/ /\ turn.before.state = MAIN_MENU
          /\ turn.text = Tok("favorite")
          /\ turn.before.favorites = <<>>
          /\ \E i \in 1..Len(responses) : responses[i].entered = FAVORITE_LIST
       \/ /\ turn.before.state = FAVORITE_LIST
          /\ turn.text \in {Tok("delete_favorite"), Tok("add_blacklist")}
          /\ Len(turn.before.favorites) = 1
          /\ favorites = <<>>
       \/ /\ turn.before.state = BLACKLIST
          /\ turn.text \in {Tok("delete_blacklist"), Tok("add_favorite")}
          /\ Len(turn.before.blacklist) = 1
          /\ blacklist = <<>>

\* C36 (as stated): such a turn shows "list empty" and ends with the stored
\* state MainMenu.
C36_EmptyListLeadsToMainMenu ==
    ListBecameEmpty =>
        /\ HasResponse("favorite_list_empty") \/ HasResponse("blacklist_empty")
        /\ user_state = MAIN_MENU

RecordsPut == [k \in 1..loop.put |-> k]

\* C38: as long as no exception has left the message loop, the records
\* stored followed by the records waiting in the queue are the records put,
\* each once and in the order they were put; and a record in the queue is
\* eventually stored, unless an exception ends the loop.
C38_AuthRecordsAreSavedInOrder ==
    /\ [](loop.pc # "stopped" => loop.saved \o loop.auth_queue = RecordsPut)
    /\ \A k \in 1..MaxRecords :
          (k \in Range(loop.auth_queue))
              ~> (k \in Range(loop.saved) \/ loop.pc = "stopped")

\* Both records were put while a turn was in flight and have been stored,
\* and the loop is handling the user's next message.
C38_Witness ==
    /\ loop.saved = <<1, 2>>
    /\ loop.pc = "handle"
    /\ ~Idle
    /\ user_state = MAIN_MENU
    /\ auth_data
    /\ loop.events > 0

\* The sessions _user_session holds: one per user at most
LiveSessions ==
    IF sessions.user_session = 0 THEN {} ELSE {sessions.user_session}

\* C39: whatever the interleaving of a callback with create_auth_link for
\* the same user, no dict operation of either fails on a missing session
\* entry; a callback that completes used the verifier of its own session
\* and cleared no session but its own; and when both threads are outside
\* AuthService the user has at most one session, the same one in
\* _user_session, _session_user and _session_data.
C39_CallbackAndCreateLinkAreAtomic ==
    /\ sessions.key_error = {}
    /\ sessions.result = "completed" =>
          /\ sessions.verifier = sessions.state
          /\ sessions.cleared \subseteq {sessions.state}
    /\ (sessions.bot.pc = "idle" /\ sessions.server.pc = "idle") =>
          /\ sessions.session_user = LiveSessions
          /\ {d[1] : d \in sessions.session_data} = LiveSessions

====
